---- MODULE Spec2Model ----
(***************************************************************************)
(* Workflow execution core of the document pipeline (backend/app):         *)
(*   - the LangGraph step graph and its routers (nodes/graph.py) run by    *)
(*     execute_workflow (routers/workflow.py), specification SpecGraph;    *)
(*   - the chat/plan stream splitter _PlanStreamSplitter                   *)
(*     (routers/workflow.py), specification SpecSplit;                     *)
(*   - the chat run and the execute run as cancellable asyncio tasks with  *)
(*     the websocket stop message (routers/workflow.py), SpecRun.          *)
(* The three specifications share one set of variables; each leaves the    *)
(* variables of the other parts at their idle values.                      *)
(***************************************************************************)
EXTENDS Integers, Sequences, FiniteSets, TLC

VARIABLES
    state,          \* the WorkflowState threaded through the steps
    next_node,      \* graph run: node the graph executes next, "END" when over
    route,          \* graph run: value returned by the last router ("" before any)
    attempts,       \* graph run: consecutive executions of the node last executed
    steps,          \* graph run: node executions so far
    entry,          \* entry point that started the run: "run" | "chat" | "execute" | "none"
    pc,             \* position of the run's task
    run_status,     \* WorkflowRun.status as persisted
    db_node_runs,   \* WorkflowNodeRun rows persisted for the run
    db_step_index,  \* run.doc_variables.current_step_index as committed
    final_output,   \* final_md and the new DocumentVersion of an execute run:
                    \* "none" | "staged" (on the session) | "committed"
    broadcasts,     \* names of the events sent to the run's observers, in order
    cancel_event,   \* run_cancel_events[run_id]: "absent" | "clear" | "set"
    run_task,       \* run_tasks[run_id]: "absent" | "running" | "cancelling" | "done"
    stops,          \* stop messages the websocket handler has processed
    stop_seen,      \* history: a stop was processed while the run was in progress
    steps_after_stop, \* history: steps started after a stop was processed
    stop_in_step,   \* history: a stop was processed while the streaming step ran
    step_result,    \* streaming step: "none" | "returned" | "raised"
    observed,       \* streaming step: it has seen the cancellation
    calls_after_observed, \* model calls the step started after it saw it
    step_calls,     \* model calls started by the step in progress or last run
    outline,        \* writer: chapters of the outline, 0 = whole-document mode
    chapter,        \* writer: index of the chapter being written
    events,         \* thinking/content events the model stream has delivered
    text,           \* splitter: the whole content stream of the controller
    pos,            \* splitter: characters of text pushed so far
    mode,           \* splitter: self.mode, "chat" | "plan"
    buf,            \* splitter: self.buf
    chatOut,        \* splitter: concatenation of the stream_content payloads
    planOut,        \* splitter: concatenation of the stream_plan payloads
    lastEmits,      \* splitter: events broadcast by the latest push or flush
    flushed,        \* splitter: flush has been called
    full_reasoning, \* controller: characters of thinking text received
    reasoning_preview_sent, \* controller: characters of it handed to on_thinking
    thinkingOut,    \* characters broadcast as stream_thinking
    asm_in,         \* assembler: the state it is run on
    asm_out,        \* assembler: the state it returned
    response,       \* controller: the model response handed to the parser
    parsed,         \* controller: what _parse_controller_response returned
    guard_in,       \* guard: the state it is run on and the model's answer
    guard_out,      \* guard: the state it returned
    img_in,         \* image step: the state it is run on and what the
                    \* image service does
    img_out,        \* image step: the state it returned
    exported,       \* export: the markdown _apply_generated_images returned
    doc             \* a document over successive runs: the doc_variables of
                    \* its latest version and of its latest run

graphVars == <<state, next_node, route, attempts, steps>>
runVars == <<entry, pc, run_status, db_node_runs, db_step_index, final_output,
            broadcasts, cancel_event,
             run_task, stops, stop_seen, steps_after_stop, stop_in_step,
             step_result, observed, calls_after_observed, step_calls, outline, chapter,
             events>>
stepVars == <<stop_in_step, step_result, observed, calls_after_observed, step_calls,
              outline, chapter, events>>
thinkVars == <<full_reasoning, reasoning_preview_sent, thinkingOut>>
funVars == <<asm_in, asm_out, response, parsed,
            guard_in, guard_out, img_in, img_out, exported, doc>>
splitVars == <<text, pos, mode, buf, chatOut, planOut, lastEmits, flushed,
               full_reasoning, reasoning_preview_sent, thinkingOut,
               asm_in, asm_out, response, parsed,
               guard_in, guard_out, img_in, img_out, exported, doc>>
vars == <<state, next_node, route, attempts, steps, entry, pc, run_status,
          db_node_runs, db_step_index, final_output, broadcasts, cancel_event, run_task,
          stops, stop_seen,
          steps_after_stop, stop_in_step, step_result, observed,
          calls_after_observed, step_calls, outline, chapter, events, text, pos, mode, buf,
          chatOut, planOut, lastEmits, flushed, full_reasoning,
          reasoning_preview_sent, thinkingOut, asm_in, asm_out, response,
          parsed, guard_in, guard_out, img_in, img_out,
          exported, doc>>

(***************************************************************************)
(* Bounds of the model                                                     *)
(***************************************************************************)
MaxSteps == 7          \* node executions explored in one graph run
MaxAttachments == 2    \* attachments in the initial state of a graph run
MaxStops == 1          \* stop messages sent to one run
MaxEvents == 2         \* thinking/content events of the model streams of a run
MaxChapters == 2       \* chapters of the outline the writer follows
MaxThinking == 4       \* thinking events of one controller stream
MaxTokens == 3         \* pieces (filler, marker) the streamed text is made of
MaxChunk == 3          \* size of a content chunk that is not the whole rest

(***************************************************************************)
(* Program constants                                                       *)
(***************************************************************************)
DefaultMaxRetries == 3     \* WorkflowState.max_retries
RouterRetryLimit == 3      \* the literal the routers compare retry_count with
MinKeep == 8               \* least number of characters the splitter holds back
reasoning_preview_cap == 1000  \* thinking characters shown to observers per run

BoundedSeq(S, n) == UNION {[1..k -> S] : k \in 0..n}

(***************************************************************************)
(* WorkflowState.  Only what the routers, the steps' status bookkeeping    *)
(* and the supervisors read is kept:                                       *)
(*   attachments   one BOOLEAN per attachment: it has a non-empty summary  *)
(*   attachment_ids  the attachments are bare ids (ChatRequest.attachments *)
(*                 is a list of str), not Attachment records               *)
(*   has_doc_info  doc_variables holds doc_type, outline or plan_md        *)
(*   draft         "none" | "plain" | "image" (holds an {{image+..}} mark) *)
(*   skills        doc_variables carries a list of skills (the planner's   *)
(*                 output, or a controller patch with a skills key)        *)
(*   node_runs     the audit records, [node_type, status]                  *)
(***************************************************************************)
InitialState(atts, info) ==
    [ node_status |-> "", current_node |-> "", error |-> "None",
      retry_count |-> 0, max_retries |-> DefaultMaxRetries,
      ready_to_write |-> FALSE, attachments |-> atts,
      attachment_ids |-> FALSE, has_doc_info |-> info,
      draft |-> "none", skills |-> FALSE, node_runs |-> <<>> ]

NodeRun(node, status) == [node_type |-> node, status |-> status]

\* an except-branch that starts the audit log afresh
ModelErrorStateFresh(s, node) ==
    [s EXCEPT !.node_runs = <<NodeRun(node, "fail")>>,
              !.current_node = node, !.node_status = "fail",
              !.error = "model_error", !.retry_count = @ + 1]

\* the except-branch shared by the steps: audit record, fail, model_error,
\* retry_count + 1
ModelErrorState(s, node) ==
    [s EXCEPT !.node_runs = Append(@, NodeRun(node, "fail")),
              !.current_node = node, !.node_status = "fail",
              !.error = "model_error", !.retry_count = @ + 1]

\* controller.run: ok = the model call returned; ready, plan = what the parsed
\* response says (ready_to_write, a non-empty plan or outline patch)
controller_run(s, ok, ready, plan) ==
    IF ok
    THEN [s EXCEPT !.has_doc_info = @ \/ plan,
                   !.node_runs = Append(@, NodeRun("controller", "success")),
                   !.current_node = "controller", !.node_status = "success",
                   !.error = "None", !.ready_to_write = ready]
    ELSE ModelErrorState(s, "controller")

Pending(atts) == {i \in DOMAIN atts : ~atts[i]}

\* attachment.run: summaries[i] = the analysis of attachment i carries a
\* non-empty summary; patch = some analysis patches doc_type/outline/plan_md
attachment_run(s, ok, summaries, patch) ==
    IF Pending(s.attachments) = {}
    THEN [s EXCEPT !.node_runs = Append(@, NodeRun("attachment", "success")),
                   !.current_node = "attachment", !.node_status = "success"]
    ELSE IF ok
    THEN [s EXCEPT !.attachments =
                       [i \in DOMAIN @ |-> IF @[i] THEN TRUE ELSE summaries[i]],
                   !.has_doc_info = @ \/ patch,
                   !.node_runs = Append(@, NodeRun("attachment", "success")),
                   !.current_node = "attachment", !.node_status = "success",
                   !.error = "None"]
    ELSE ModelErrorState(s, "attachment")

\* writer.run without its precondition
writer_run_unchecked(s, ok, withImage) ==
    IF ok
    THEN [s EXCEPT !.draft = IF withImage THEN "image" ELSE "plain",
                   !.node_runs = Append(@, NodeRun("writer", "success")),
                   !.current_node = "writer", !.node_status = "success",
                   !.error = "None"]
    ELSE ModelErrorState(s, "writer")

\* writer.run: the precondition failure returns before the model call, with
\* no audit record and retry_count untouched
writer_run(s, ok, withImage) ==
    IF ~s.has_doc_info
    THEN [s EXCEPT !.current_node = "writer", !.node_status = "fail",
                   !.error = "validation_failed"]
    ELSE IF ok
    THEN [s EXCEPT !.draft = IF withImage THEN "image" ELSE "plain",
                   !.node_runs = Append(@, NodeRun("writer", "success")),
                   !.current_node = "writer", !.node_status = "success",
                   !.error = "None"]
    ELSE ModelErrorState(s, "writer")

\* image.run: nothing to generate without a placeholder in the draft
image_run(s, ok) ==
    IF s.draft # "image" \/ ok
    THEN [s EXCEPT !.node_runs = Append(@, NodeRun("image", "success")),
                   !.current_node = "image", !.node_status = "success",
                   !.error = "None"]
    ELSE ModelErrorState(s, "image")

\* checker.run
checker_run(s, ok) ==
    IF ok
    THEN [s EXCEPT !.node_runs = Append(@, NodeRun("checker", "success")),
                   !.current_node = "checker", !.node_status = "success",
                   !.error = "None"]
    ELSE ModelErrorState(s, "checker")

(***************************************************************************)
(* Routers (nodes/graph.py)                                                *)
(***************************************************************************)
RetryLE(s) == s.node_status = "fail" /\ s.retry_count <= RouterRetryLimit

\* the test every router starts with
ShouldRetry(s) == s.node_status = "fail" /\ s.retry_count < RouterRetryLimit

_route_from_controller(s) ==
    IF s.node_status = "fail"
    THEN IF s.retry_count < RouterRetryLimit THEN "retry" ELSE "chat"
    ELSE IF Pending(s.attachments) # {} THEN "attachment"
    ELSE IF s.ready_to_write THEN "write"
    ELSE "chat"

_route_from_attachment(s) == IF ShouldRetry(s) THEN "retry" ELSE "controller"

_route_from_writer(s) == IF ShouldRetry(s) THEN "retry" ELSE "image"

_route_from_image(s) == IF ShouldRetry(s) THEN "retry" ELSE "checker"

_route_from_checker(s) == IF ShouldRetry(s) THEN "retry" ELSE "done"

\* create_workflow: the conditional edges, router value -> next node
Edge(node, r) ==
    CASE r = "retry" -> node
      [] r = "attachment" -> "attachment"
      [] r = "write" -> "writer"
      [] r = "controller" -> "controller"
      [] r = "image" -> "image"
      [] r = "checker" -> "checker"
      [] r \in {"chat", "done"} -> "END"

Route(node, s) ==
    CASE node = "controller" -> _route_from_controller(s)
      [] node = "attachment" -> _route_from_attachment(s)
      [] node = "writer" -> _route_from_writer(s)
      [] node = "image" -> _route_from_image(s)
      [] node = "checker" -> _route_from_checker(s)

(***************************************************************************)
(* Idle values of the parts a specification does not use                   *)
(***************************************************************************)
GraphIdle ==
    /\ next_node = "" /\ route = "" /\ attempts = 0 /\ steps = 0

ThinkIdle ==
    /\ full_reasoning = 0 /\ reasoning_preview_sent = 0 /\ thinkingOut = 0

\* no assembler run, no response parsed
FunIdle ==
    /\ asm_in = [done |-> FALSE] /\ asm_out = [done |-> FALSE]
    /\ response = [done |-> FALSE] /\ parsed = [done |-> FALSE]
    /\ guard_in = [done |-> FALSE] /\ guard_out = [done |-> FALSE]
    /\ img_in = [done |-> FALSE] /\ img_out = [done |-> FALSE]
    /\ exported = [done |-> FALSE] /\ doc = [done |-> FALSE]

SplitIdle ==
    /\ text = <<>> /\ pos = 0 /\ mode = "chat" /\ buf = <<>>
    /\ chatOut = <<>> /\ planOut = <<>> /\ lastEmits = <<>> /\ flushed = FALSE
    /\ ThinkIdle
    /\ FunIdle

StepIdle ==
    /\ stop_in_step = FALSE /\ step_result = "none" /\ observed = FALSE
    /\ calls_after_observed = 0 /\ outline = 0 /\ chapter = 0 /\ events = 0
    /\ step_calls = 0

RunIdle ==
    /\ entry = "none" /\ pc = "none" /\ run_status = "pending"
    /\ db_node_runs = <<>> /\ db_step_index = -1 /\ final_output = "none" /\ broadcasts = <<>>
    /\ cancel_event = "absent" /\ run_task = "absent"
    /\ stops = 0 /\ stop_seen = FALSE /\ steps_after_stop = 0
    /\ StepIdle

(***************************************************************************)
(* The websocket handler's stop message (workflow_stream): set the run's   *)
(* cancel event when one is registered, cancel its task when one is        *)
(* registered and not done, acknowledge.                                   *)
(***************************************************************************)
RunInProgress == pc \notin {"none", "done"}

\* positions between two awaits: the task is never suspended there, so the
\* websocket handler cannot run
SyncPcs == {"w_enter", "w_chapter"}

\* positions inside controller.run_streaming (chat run) and
\* writer.run_streaming (execute run)
StepPcs == {"c_stream", "c_bc_thinking", "c_bc_content",
            "w_bc_chapter", "w_db_chapter", "w_stream", "w_bc_content",
            "w_bc_sep"}

ClientStop ==
    /\ RunInProgress
    /\ pc \notin SyncPcs
    /\ stops < MaxStops
    /\ stops' = stops + 1
    /\ stop_seen' = TRUE
    /\ stop_in_step' = (stop_in_step \/ pc \in StepPcs)
    /\ UNCHANGED <<step_result, observed, calls_after_observed, step_calls, outline,
                   chapter, events>>
    /\ cancel_event' = IF cancel_event = "absent" THEN "absent" ELSE "set"
    /\ run_task' = IF run_task \in {"running", "cancelling"}
                   THEN "cancelling" ELSE run_task
    /\ UNCHANGED <<entry, pc, run_status, db_node_runs, db_step_index, final_output, broadcasts,
                   steps_after_stop>>
    /\ UNCHANGED graphVars
    /\ UNCHANGED splitVars

(***************************************************************************)
(* /docs/{id}/run: start_workflow hands execute_workflow to BackgroundTasks *)
(* (no entry in run_tasks, none in run_cancel_events); execute_workflow    *)
(* drives the compiled graph and persists each node's audit record.        *)
(***************************************************************************)
InitGraph ==
    /\ \E atts \in BoundedSeq(BOOLEAN, MaxAttachments), info \in BOOLEAN :
           state = InitialState(atts, info)
    /\ GraphIdle
    /\ SplitIdle
    /\ entry = "run" /\ pc = "begin" /\ run_status = "pending"
    /\ db_node_runs = <<>> /\ db_step_index = -1 /\ final_output = "none" /\ broadcasts = <<>>
    /\ cancel_event = "absent" /\ run_task = "absent"
    /\ stops = 0 /\ stop_seen = FALSE /\ steps_after_stop = 0
    /\ StepIdle

\* run.status = "running", run_start, the graph is entered at controller
ExecuteWorkflowStart ==
    /\ entry = "run" /\ pc = "begin"
    /\ pc' = "graph"
    /\ run_status' = "running"
    /\ broadcasts' = Append(broadcasts, "run_start")
    /\ next_node' = "controller"
    /\ UNCHANGED <<state, route, attempts, steps, entry, db_node_runs, db_step_index, final_output,
                   cancel_event, run_task, stops, stop_seen, steps_after_stop>>
    /\ UNCHANGED splitVars
    /\ UNCHANGED stepVars

\* whether a step run on state s reaches its Model Gateway call (1) or
\* returns before it (0)
StepCalls(node, s) ==
    CASE node = "writer" -> IF s.has_doc_info THEN 1 ELSE 0
      [] node = "attachment" -> IF Pending(s.attachments) # {} THEN 1 ELSE 0
      [] node = "image" -> IF s.draft = "image" THEN 1 ELSE 0
      [] OTHER -> 1

\* one iteration of "async for event in workflow.astream": the node has run,
\* its router has chosen the edge, the supervisor broadcasts node_update and
\* persists the latest audit record of the returned state
GraphStep(node, s2) ==
    /\ entry = "run" /\ pc = "graph"
    /\ next_node = node
    /\ steps < MaxSteps
    /\ state' = s2
    /\ route' = Route(node, s2)
    /\ next_node' = Edge(node, Route(node, s2))
    /\ attempts' = IF route = "retry" THEN attempts + 1 ELSE 1
    /\ steps' = steps + 1
    /\ steps_after_stop' = IF stop_seen THEN steps_after_stop + 1
                           ELSE steps_after_stop
    /\ broadcasts' = Append(broadcasts, "node_update")
    /\ UNCHANGED <<db_step_index, final_output>>
    /\ db_node_runs' = IF s2.node_runs # <<>>
                       THEN Append(db_node_runs, s2.node_runs[Len(s2.node_runs)])
                       ELSE db_node_runs
    /\ step_calls' = StepCalls(node, state)
    /\ UNCHANGED <<entry, pc, run_status, cancel_event, run_task, stops,
                   stop_seen>>
    /\ UNCHANGED splitVars
    /\ UNCHANGED <<stop_in_step, step_result, observed, calls_after_observed,
                   outline, chapter, events>>

RunController ==
    \E ok \in BOOLEAN, ready \in BOOLEAN, plan \in BOOLEAN :
        GraphStep("controller", controller_run(state, ok, ready, plan))

RunAttachment ==
    \E ok \in BOOLEAN, patch \in BOOLEAN,
       summaries \in [DOMAIN state.attachments -> BOOLEAN] :
        GraphStep("attachment", attachment_run(state, ok, summaries, patch))

RunWriter ==
    \E ok \in BOOLEAN, withImage \in BOOLEAN :
        GraphStep("writer", writer_run(state, ok, withImage))

RunImage ==
    \E ok \in BOOLEAN : GraphStep("image", image_run(state, ok))

RunChecker ==
    \E ok \in BOOLEAN : GraphStep("checker", checker_run(state, ok))

\* the graph reached END: run.status = "completed", run_complete
ExecuteWorkflowComplete ==
    /\ entry = "run" /\ pc = "graph"
    /\ next_node = "END"
    /\ pc' = "done"
    /\ run_status' = "completed"
    /\ broadcasts' = Append(broadcasts, "run_complete")
    /\ UNCHANGED <<entry, db_node_runs, db_step_index, final_output, cancel_event, run_task, stops,
                   stop_seen, steps_after_stop>>
    /\ UNCHANGED graphVars
    /\ UNCHANGED splitVars
    /\ UNCHANGED stepVars

\* an exception leaves the loop (a database error, an error of the graph
\* library): run.status = "failed", run_error
ExecuteWorkflowError ==
    /\ entry = "run" /\ pc = "graph"
    /\ pc' = "done"
    /\ run_status' = "failed"
    /\ broadcasts' = Append(broadcasts, "run_error")
    /\ UNCHANGED <<entry, db_node_runs, db_step_index, final_output, cancel_event, run_task, stops,
                   stop_seen, steps_after_stop>>
    /\ UNCHANGED graphVars
    /\ UNCHANGED splitVars
    /\ UNCHANGED stepVars

NextGraph ==
    \/ ExecuteWorkflowStart
    \/ RunController
    \/ RunAttachment
    \/ RunWriter
    \/ RunImage
    \/ RunChecker
    \/ ExecuteWorkflowComplete
    \/ ExecuteWorkflowError
    \/ ClientStop

SpecGraph == InitGraph /\ [][NextGraph]_vars

(***************************************************************************)
(* Claims about the step graph, checked under SpecGraph                    *)
(***************************************************************************)
\* the router of the node last executed has just stopped retrying it
StoppedRetrying == route \notin {"", "retry"}

\* C1: a step whose every execution fails is executed exactly
\* max_retries + 1 times before its router stops retrying, and retry_count is
\* then max_retries.  (A router retries only after a failure, so when the last
\* execution of a stint failed, all of them did.)
C1_RetryBound ==
    (StoppedRetrying /\ state.node_status = "fail")
        => (attempts = state.max_retries + 1
            /\ state.retry_count = state.max_retries)

\* the successor edge the claim gives each step
C2_Successor(s) ==
    CASE s.current_node = "controller" ->
             IF Pending(s.attachments) # {} THEN "attachment"
             ELSE IF s.ready_to_write THEN "write" ELSE "chat"
      [] s.current_node = "attachment" -> "controller"
      [] s.current_node = "writer" -> "image"
      [] s.current_node = "image" -> "checker"
      [] s.current_node = "checker" -> "done"

C2_RetryCase(s) == s.node_status = "fail" /\ s.retry_count < s.max_retries

C3_ExhaustedTerminates ==
    (StoppedRetrying /\ state.node_status = "fail") =>
        IF state.current_node = "controller"
        THEN route = "chat" /\ next_node = "END"
        ELSE next_node = "END" /\ run_status # "completed"

\* C4: when execution passes to a step of another type, retry_count is 0 as
\* the new step starts.
C4_RetryResetOnTransition ==
    (StoppedRetrying /\ next_node # "END") => state.retry_count = 0

\* C5: a router sends a failed step back to itself only when the failure kind
\* is model_error.
C5_RetryOnlyModelError ==
    (route = "retry" /\ state.node_status = "fail")
        => state.error = "model_error"

\* C8: a stop sent while a run is in progress sets the run's cancel event,
\* and the run executes no further step.
C8_StopHonoured ==
    /\ (stop_seen /\ RunInProgress) => cancel_event = "set"
    /\ steps_after_stop = 0

(***************************************************************************)
(* _PlanStreamSplitter (routers/workflow.py).  Text is a sequence of       *)
(* characters; "[", "P", "L", "]" stand for the four characters of the     *)
(* plan marker and "[", "C", "H", "]" for those of the chat marker, which  *)
(* share their first and last character as the real markers do.            *)
(***************************************************************************)
plan_marker == <<"[", "P", "L", "]">>
chat_marker == <<"[", "C", "H", "]">>

Max2(a, b) == IF a >= b THEN a ELSE b

\* keep = max(len(plan_marker) - 1, len(chat_marker) - 1, 8) in chat mode
KeepChat == Max2(Max2(Len(plan_marker) - 1, Len(chat_marker) - 1), MinKeep)
\* keep = max(len(plan_marker) - 1, 8) in plan mode
KeepPlan == Max2(Len(plan_marker) - 1, MinKeep)

\* s[i:] and s[:n] of Python, 1-based here
Drop(s, n) == SubSeq(s, n + 1, Len(s))
Take(s, n) == SubSeq(s, 1, n)

StartsWith(s, m) == Len(s) >= Len(m) /\ Take(s, Len(m)) = m

\* str.find: position (from 0) of the first occurrence of m in s, -1 if none
RECURSIVE FindFrom(_, _, _)
FindFrom(s, m, i) ==
    IF i + Len(m) > Len(s) THEN -1
    ELSE IF SubSeq(s, i + 1, i + Len(m)) = m THEN i
    ELSE FindFrom(s, m, i + 1)

Find(s, m) == FindFrom(s, m, 0)

\* str.replace(m, ""): every occurrence of m removed, scanning from the left
RECURSIVE Remove(_, _)
Remove(s, m) ==
    IF s = <<>> THEN <<>>
    ELSE IF StartsWith(s, m) THEN Remove(Drop(s, Len(m)), m)
    ELSE <<s[1]>> \o Remove(Drop(s, 1), m)

Emit(event, content) == [event |-> event, content |-> content]

EmitIf(ems, event, content) ==
    IF content # <<>> THEN Append(ems, Emit(event, content)) ELSE ems

\* out = buf[:-keep], buf = buf[-keep:] when len(buf) > keep
HoldBack(b, keep) ==
    IF Len(b) > keep
    THEN [out |-> Take(b, Len(b) - keep), rest |-> Drop(b, Len(b) - keep)]
    ELSE [out |-> <<>>, rest |-> b]

\* the "while True" loop of push, from mode m with buffer b (the chunk
\* already appended) and the events ems broadcast so far
RECURSIVE PushLoop(_, _, _)
PushLoop(m, b, ems) ==
    IF m = "chat"
    THEN LET idx == Find(b, plan_marker) IN
         IF idx >= 0
         THEN PushLoop("plan", Drop(b, idx + Len(plan_marker)),
                       EmitIf(ems, "stream_content",
                              Remove(Take(b, idx), chat_marker)))
         ELSE LET h == HoldBack(b, KeepChat) IN
              [mode |-> "chat", buf |-> h.rest,
               emits |-> EmitIf(ems, "stream_content",
                                Remove(h.out, chat_marker))]
    ELSE LET h == HoldBack(b, KeepPlan) IN
         [mode |-> "plan", buf |-> h.rest,
          emits |-> EmitIf(ems, "stream_plan", h.out)]

\* push(chunk)
SplitterPush(m, b, chunk) ==
    IF chunk = <<>> THEN [mode |-> m, buf |-> b, emits |-> <<>>]
    ELSE PushLoop(m, b \o chunk, <<>>)

\* flush() with the mode test dropped: the rest goes to the chat channel
SplitterFlushChat(m, b) ==
    IF b = <<>> THEN [mode |-> m, buf |-> b, emits |-> <<>>]
    ELSE [mode |-> m, buf |-> <<>>,
          emits |-> <<Emit("stream_content", Remove(b, chat_marker))>>]

\* flush(): the chat branch broadcasts even when nothing is left after the
\* chat marker is removed
SplitterFlush(m, b) ==
    IF b = <<>> THEN [mode |-> m, buf |-> b, emits |-> <<>>]
    ELSE IF m = "plan"
    THEN [mode |-> m, buf |-> <<>>, emits |-> <<Emit("stream_plan", b)>>]
    ELSE [mode |-> m, buf |-> <<>>,
          emits |-> <<Emit("stream_content", Remove(b, chat_marker))>>]

\* payloads of one channel among the events ems, concatenated in order
RECURSIVE Payload(_, _)
Payload(ems, event) ==
    IF ems = <<>> THEN <<>>
    ELSE (IF ems[1].event = event THEN ems[1].content ELSE <<>>)
         \o Payload(Tail(ems), event)

\* the texts streamed: up to MaxTokens pieces, each a letter, a run of five
\* letters, a marker or a lone opening bracket
Tokens ==
    { <<"a">>, <<"b", "c", "d", "e", "f">>, plan_marker, chat_marker, <<"[">> }

RECURSIVE Flatten(_)
Flatten(ts) == IF ts = <<>> THEN <<>> ELSE ts[1] \o Flatten(Tail(ts))

Texts == { Flatten(ts) : ts \in UNION {[1..k -> Tokens] : k \in 1..MaxTokens} }

InitSplit ==
    /\ text \in Texts
    /\ pos = 0 /\ mode = "chat" /\ buf = <<>>
    /\ chatOut = <<>> /\ planOut = <<>> /\ lastEmits = <<>> /\ flushed = FALSE
    /\ ThinkIdle
    /\ FunIdle
    /\ state = InitialState(<<>>, FALSE)
    /\ GraphIdle
    /\ RunIdle

\* on_content(chunk) -> splitter.push(chunk), chunk the next n characters
OnContent(n) ==
    /\ ~flushed
    /\ pos + n <= Len(text)
    /\ LET r == SplitterPush(mode, buf, SubSeq(text, pos + 1, pos + n)) IN
        /\ mode' = r.mode
        /\ buf' = r.buf
        /\ lastEmits' = r.emits
        /\ chatOut' = chatOut \o Payload(r.emits, "stream_content")
        /\ planOut' = planOut \o Payload(r.emits, "stream_plan")
    /\ pos' = pos + n
    /\ UNCHANGED <<text, flushed>>
    /\ UNCHANGED thinkVars
    /\ UNCHANGED funVars
    /\ UNCHANGED graphVars
    /\ UNCHANGED runVars

PushChunk == \E n \in 1..MaxChunk : OnContent(n)

PushRest == pos < Len(text) /\ OnContent(Len(text) - pos)

\* the stream is over: splitter.flush()
Flush ==
    /\ ~flushed
    /\ pos = Len(text)
    /\ LET r == SplitterFlush(mode, buf) IN
        /\ mode' = r.mode
        /\ buf' = r.buf
        /\ lastEmits' = r.emits
        /\ chatOut' = chatOut \o Payload(r.emits, "stream_content")
        /\ planOut' = planOut \o Payload(r.emits, "stream_plan")
    /\ flushed' = TRUE
    /\ UNCHANGED <<text, pos>>
    /\ UNCHANGED thinkVars
    /\ UNCHANGED funVars
    /\ UNCHANGED graphVars
    /\ UNCHANGED runVars

NextSplit == PushChunk \/ PushRest \/ Flush

SpecSplit == InitSplit /\ [][NextSplit]_vars

MarkerChars == {"[", "P", "L", "]", "C", "H"}

Chars(s) == {s[i] : i \in DOMAIN s}

\* every marker character of t lies inside a whole marker
MarkersWhole(t) ==
    Chars(Remove(Remove(t, plan_marker), chat_marker)) \cap MarkerChars = {}

\* C9: no fragment emitted on the chat or the plan channel contains a channel
\* marker or a piece of a marker occurrence of the input (in a text whose
\* marker characters all belong to whole markers, any marker character in a
\* fragment is such a piece).
C9_NoMarkerLeak ==
    MarkersWhole(text) =>
        \A i \in DOMAIN lastEmits :
            Chars(lastEmits[i].content) \cap MarkerChars = {}

\* the text with the plan marker that separates the channels removed, and the
\* chat marker the chat side strips: what one push of the whole text followed
\* by flush delivers
MarkersRemoved(t) ==
    LET idx == Find(t, plan_marker) IN
    [chat |-> Remove(Take(t, idx), chat_marker),
     plan |-> Drop(t, idx + Len(plan_marker))]

\* C10: for a text that contains the plan marker, pushing it in any chunking
\* and flushing yields chat emissions followed by plan emissions whose
\* concatenation is the text with the marker removed, the same whatever the
\* chunking.
C10_Reconstruction ==
    (flushed /\ Find(text, plan_marker) >= 0) =>
        /\ chatOut = MarkersRemoved(text).chat
        /\ planOut = MarkersRemoved(text).plan

(***************************************************************************)
(* /docs/{id}/chat and /docs/{id}/execute: the run is an asyncio task      *)
(* registered in run_tasks, with an Event in run_cancel_events.  pc names  *)
(* the await the task is suspended at.  A stop cancels the task: the       *)
(* CancelledError is raised at that await.  broadcast_to_run swallows it   *)
(* (bare except); "except Exception" does not catch it.                    *)
(***************************************************************************)
controller_run_streaming(s, ok, ready, plan) == controller_run(s, ok, ready, plan)

\* run_streaming keeping what was streamed before the cancellation
writer_run_streaming_partial(s, outcome, withImage) ==
    IF outcome = "cancelled" /\ s.has_doc_info
    THEN [s EXCEPT !.draft = "plain",
                   !.node_runs = Append(@, NodeRun("writer", "fail")),
                   !.current_node = "writer", !.node_status = "fail",
                   !.error = "cancelled"]
    ELSE writer_run(s, outcome = "ok", withImage)

\* writer.run_streaming: the outcomes of writer.run, and "cancelled" (audit
\* record, fail, error_type cancelled, retry_count untouched)
writer_run_streaming(s, outcome, withImage) ==
    IF outcome = "cancelled" /\ s.has_doc_info
    THEN [s EXCEPT !.node_runs = Append(@, NodeRun("writer", "fail")),
                   !.current_node = "writer", !.node_status = "fail",
                   !.error = "cancelled"]
    ELSE writer_run(s, outcome = "ok", withImage)

InitRun ==
    /\ entry \in {"chat", "execute"}
    /\ pc = IF entry = "chat" THEN "c_begin" ELSE "e_begin"
    /\ \E info \in BOOLEAN, ids \in BOOLEAN, sk \in BOOLEAN :
           /\ ids => entry = "chat"
           /\ sk => entry = "execute"
           /\ state = [InitialState(IF ids THEN <<FALSE>> ELSE <<>>, info)
                           EXCEPT !.attachment_ids = ids,
                                  !.skills = sk,
                                  !.ready_to_write = (entry = "execute")]
    /\ outline \in 0..MaxChapters
    /\ outline > 0 => (entry = "execute" /\ state.has_doc_info)
    /\ run_status = "pending" /\ db_node_runs = <<>> /\ db_step_index = -1 /\ final_output = "none"
    /\ broadcasts = <<>>
    /\ cancel_event = "clear" /\ run_task = "running"
    /\ stops = 0 /\ stop_seen = FALSE /\ steps_after_stop = 0
    /\ stop_in_step = FALSE /\ step_result = "none" /\ observed = FALSE
    /\ calls_after_observed = 0 /\ chapter = 0 /\ events = 0
    /\ step_calls = 0
    /\ GraphIdle
    /\ SplitIdle

\* what no step of these runs touches
RunFrame ==
    /\ UNCHANGED <<entry, stops, stop_seen, steps_after_stop, stop_in_step,
                   outline>>
    /\ UNCHANGED <<next_node, route, attempts, steps>>
    /\ UNCHANGED splitVars

\* the task resumes normally from its await
Running == run_task = "running" /\ UNCHANGED <<run_task, cancel_event>>

Sup(pc2, status2) ==
    /\ pc' = pc2 /\ run_status' = status2
    /\ UNCHANGED <<broadcasts, db_node_runs, db_step_index, final_output>>
    /\ RunFrame

\* db.commit() on the supervisor's session: what is staged on it is written
\* with the status
Commit(out) == IF out = "staged" THEN "committed" ELSE out

SupCommit(pc2, status2) ==
    /\ pc' = pc2 /\ run_status' = status2
    /\ final_output' = Commit(final_output)
    /\ UNCHANGED <<broadcasts, db_node_runs, db_step_index>>
    /\ RunFrame

StepSame ==
    UNCHANGED <<state, step_result, observed, calls_after_observed, step_calls, chapter,
                events>>

\* "await broadcast_to_run(run_id, e, ..)": the event is sent and the task
\* goes on; a CancelledError raised at the send is swallowed and the task
\* goes on as well
BroadcastAwait(e, pc2) ==
    /\ run_task \in {"running", "cancelling"}
    /\ run_task' = "running"
    /\ broadcasts' = IF run_task = "running" THEN Append(broadcasts, e)
                     ELSE broadcasts
    /\ pc' = pc2
    /\ UNCHANGED <<run_status, db_node_runs, db_step_index, final_output, cancel_event>>
    /\ RunFrame

\* a supervisor that keeps no audit rows
PersistNothing(s) == db_node_runs

\* _persist_latest_node_run
Persist(s) ==
    IF s.node_runs # <<>> THEN Append(db_node_runs, s.node_runs[Len(s.node_runs)])
    ELSE db_node_runs

\* model_client.stream_call is entered by the streaming step
StartCall ==
    /\ step_calls' = step_calls + 1
    /\ calls_after_observed' =
           IF observed THEN calls_after_observed + 1 ELSE calls_after_observed

(***************************************************************************)
(* execute_workflow_streaming (chat run)                                   *)
(***************************************************************************)
ChatBegin ==
    /\ pc = "c_begin" /\ Running
    /\ Sup("c_run_start", "running")
    /\ StepSame

ChatRunStart ==
    /\ pc = "c_run_start"
    /\ BroadcastAwait("run_start", "c_node_update")
    /\ StepSame

\* node_update is sent, controller.run_streaming is entered: building
\* prompt_spec calls a.get("summary") on every attachment, before the try, so
\* an attachment that is a str raises AttributeError to the supervisor;
\* otherwise the model stream is started
ChatNodeUpdate ==
    /\ pc = "c_node_update"
    /\ BroadcastAwait("node_update",
                      IF state.attachment_ids THEN "h_failed" ELSE "c_stream")
    /\ IF state.attachment_ids
       THEN step_result' = "raised" /\ UNCHANGED <<calls_after_observed, step_calls>>
       ELSE StartCall /\ UNCHANGED step_result
    /\ UNCHANGED <<state, observed, chapter, events>>

\* on_thinking / on_content: CancelledError when the event is set, else the
\* broadcast (bc = FALSE: nothing to send, the splitter held the chunk back)
ControllerCallback(bc, pcBroadcast) ==
    /\ pc = "c_stream" /\ Running
    /\ events < MaxEvents
    /\ events' = events + 1
    /\ IF cancel_event = "set"
       THEN /\ Sup("h_cancel", run_status)
            /\ step_result' = "raised"
            /\ observed' = TRUE
       ELSE /\ Sup(IF bc THEN pcBroadcast ELSE "c_stream", run_status)
            /\ UNCHANGED <<step_result, observed>>
    /\ UNCHANGED <<state, calls_after_observed, step_calls, chapter>>

\* a thinking event; shown = the preview cap is not used up
ControllerThinking ==
    \E shown \in BOOLEAN :
        IF shown THEN ControllerCallback(TRUE, "c_bc_thinking")
        ELSE /\ pc = "c_stream" /\ Running
             /\ events < MaxEvents
             /\ events' = events + 1
             /\ Sup("c_stream", run_status)
             /\ UNCHANGED <<state, step_result, observed,
                            calls_after_observed, step_calls, chapter>>

ControllerContent ==
    \E emits \in BOOLEAN : ControllerCallback(emits, "c_bc_content")

ControllerStreamBroadcast ==
    /\ pc \in {"c_bc_thinking", "c_bc_content"}
    /\ BroadcastAwait(IF pc = "c_bc_thinking" THEN "stream_thinking"
                      ELSE "stream_content", "c_stream")
    /\ StepSame

\* the stream ended ("done") or reported an error: run_streaming returns
ControllerReturn ==
    /\ pc = "c_stream" /\ Running
    /\ \E ok \in BOOLEAN, ready \in BOOLEAN, plan \in BOOLEAN :
           state' = controller_run_streaming(state, ok, ready, plan)
    /\ step_result' = "returned"
    /\ Sup("c_flush", run_status)
    /\ UNCHANGED <<observed, calls_after_observed, step_calls, chapter, events>>

\* splitter.flush(), which broadcasts what is left in the buffer
ChatFlush ==
    /\ pc = "c_flush"
    /\ \/ BroadcastAwait("stream_content", "c_stream_done")
       \/ Running /\ Sup("c_stream_done", run_status)
    /\ StepSame

ChatStreamDone ==
    /\ pc = "c_stream_done"
    /\ BroadcastAwait("stream_done", "c_persist")
    /\ StepSame

\* the chat supervisor raising on a failed state, as the execute one does
ChatPersistChecked ==
    /\ pc = "c_persist" /\ Running
    /\ UNCHANGED <<db_step_index, final_output>>
    /\ db_node_runs' = Persist(state)
    /\ pc' = IF state.node_status = "fail" THEN "h_failed" ELSE "c_commit"
    /\ UNCHANGED <<run_status, broadcasts>>
    /\ RunFrame
    /\ StepSame

ChatPersist ==
    /\ pc = "c_persist" /\ Running
    /\ UNCHANGED <<db_step_index, final_output>>
    /\ db_node_runs' = Persist(state)
    /\ pc' = "c_commit"
    /\ UNCHANGED <<run_status, broadcasts>>
    /\ RunFrame
    /\ StepSame

\* run.status = "completed", whatever node_status the controller returned
ChatCommit ==
    /\ pc = "c_commit" /\ Running
    /\ Sup("c_run_complete", "completed")
    /\ StepSame

RunComplete ==
    /\ pc \in {"c_run_complete", "e_run_complete"}
    /\ BroadcastAwait("run_complete", "finally")
    /\ StepSame

(***************************************************************************)
(* The except and finally clauses of both supervisors                      *)
(***************************************************************************)
\* the handlers select the run on the session of the try block, set its
\* status and commit that session
HandlerCancelled ==
    /\ pc = "h_cancel" /\ Running
    /\ SupCommit("h_bc_cancel", "cancelled")
    /\ StepSame

HandlerCancelledBroadcast ==
    /\ pc = "h_bc_cancel"
    /\ BroadcastAwait("run_cancelled", "finally")
    /\ StepSame

HandlerFailed ==
    /\ pc = "h_failed" /\ Running
    /\ SupCommit("h_bc_error", "failed")
    /\ StepSame

HandlerFailedBroadcast ==
    /\ pc = "h_bc_error"
    /\ BroadcastAwait("run_error", "finally")
    /\ StepSame

\* run_tasks.pop, run_cancel_events.pop
Finally ==
    /\ pc = "finally"
    /\ pc' = "done"
    /\ run_task' = "absent" /\ cancel_event' = "absent"
    /\ UNCHANGED <<run_status, broadcasts, db_node_runs, db_step_index, final_output>>
    /\ RunFrame
    /\ StepSame

\* awaits on the database session, outside the steps (database failures are
\* left out: the session is assumed to work)
DbPcs == {"c_begin", "c_persist", "c_commit", "e_begin", "e_persist",
          "e_persist_image", "e_get_doc", "e_commit"}

\* awaits from which a CancelledError reaches the supervisor's except clause
PropPcs == DbPcs \cup {"c_stream", "i_call", "g_call"}

\* awaits inside the except clauses
HandlerPcs == {"h_cancel", "h_failed"}

\* the CancelledError leaves the await: from the try block to
\* "except asyncio.CancelledError"; from inside an except clause out of the
\* supervisor, the status staying as it is
CancelPropagates ==
    /\ run_task = "cancelling"
    /\ pc \in PropPcs \cup HandlerPcs
    /\ run_task' = "running"
    /\ step_result' = IF pc = "c_stream" THEN "raised" ELSE step_result
    /\ Sup(IF pc \in HandlerPcs THEN "finally" ELSE "h_cancel", run_status)
    /\ UNCHANGED <<state, cancel_event, observed, calls_after_observed, step_calls,
                   chapter, events>>

(***************************************************************************)
(* execute_workflow_execute_streaming (execute run) and                    *)
(* writer.run_streaming                                                    *)
(***************************************************************************)
ExecBegin ==
    /\ pc = "e_begin" /\ Running
    /\ Sup("e_run_start", "running")
    /\ StepSame

ExecRunStart ==
    /\ pc = "e_run_start"
    /\ BroadcastAwait("run_start", "e_node_update")
    /\ StepSame

ExecNodeUpdate ==
    /\ pc \in {"e_node_update", "e_bc_image"}
    /\ BroadcastAwait("node_update",
                      IF pc = "e_node_update" THEN "w_enter" ELSE "i_call")
    /\ StepSame

\* run_streaming returns s2 to the supervisor
WriterReturns(s2, obs) ==
    /\ state' = s2
    /\ step_result' = "returned"
    /\ observed' = (observed \/ obs)
    /\ Sup("e_persist", run_status)

\* writer.run_streaming up to its first await: the precondition, the mode
WriterEnter ==
    /\ pc = "w_enter" /\ Running
    /\ IF ~state.has_doc_info
       THEN /\ WriterReturns(writer_run_streaming(state, "ok", FALSE), FALSE)
            /\ UNCHANGED <<calls_after_observed, step_calls, chapter, events>>
       ELSE /\ Sup(IF outline > 0 THEN "w_chapter" ELSE "w_stream", run_status)
            /\ IF outline > 0 THEN UNCHANGED <<calls_after_observed, step_calls>>
               ELSE StartCall
            /\ UNCHANGED <<state, step_result, observed, chapter, events>>

\* head of "for idx, title in enumerate(outline)": the cancel check, then
\* on_chapter_start, which repeats the check and broadcasts
WriterChapter ==
    /\ pc = "w_chapter" /\ Running
    /\ IF chapter = outline
       THEN \E withImage \in BOOLEAN :
                WriterReturns(writer_run_streaming(state, "ok", withImage),
                              FALSE)
       ELSE IF cancel_event = "set"
       THEN WriterReturns(writer_run_streaming(state, "cancelled", FALSE),
                          TRUE)
       ELSE /\ Sup("w_bc_chapter", run_status)
            /\ UNCHANGED <<state, step_result, observed>>
    /\ UNCHANGED <<calls_after_observed, step_calls, chapter, events>>

WriterChapterBroadcast ==
    /\ pc = "w_bc_chapter"
    /\ BroadcastAwait("chapter_update", "w_db_chapter")
    /\ StepSame

\* on_chapter also writing a progress row to the audit table
WriterChapterCommitAudit ==
    /\ pc = "w_db_chapter" /\ Running
    /\ pc' = "w_stream"
    /\ db_step_index' = chapter
    /\ UNCHANGED final_output
    /\ db_node_runs' = Append(db_node_runs, NodeRun("writer", "running"))
    /\ UNCHANGED <<run_status, broadcasts>>
    /\ RunFrame
    /\ StartCall
    /\ UNCHANGED <<state, step_result, observed, chapter, events>>

\* on_chapter's commit of current_step_index (its database errors are
\* ignored), then the model stream of the chapter is started
WriterChapterCommit ==
    /\ pc = "w_db_chapter" /\ Running
    /\ pc' = "w_stream"
    /\ \E committed \in BOOLEAN :
          db_step_index' = IF committed THEN chapter ELSE db_step_index
    /\ UNCHANGED final_output
    /\ UNCHANGED <<run_status, broadcasts, db_node_runs>>
    /\ RunFrame
    /\ StartCall
    /\ UNCHANGED <<state, step_result, observed, chapter, events>>

\* one event of the model stream; the cancel check comes before the event
\* is looked at
WriterEvent(kind) ==
    /\ pc = "w_stream" /\ Running
    /\ kind \in {"thinking", "content"} => events < MaxEvents
    /\ events' = IF kind \in {"thinking", "content"} THEN events + 1
                 ELSE events
    /\ IF cancel_event = "set"
       THEN WriterReturns(writer_run_streaming(state, "cancelled", FALSE),
                          TRUE)
       ELSE CASE kind = "thinking" ->
                     /\ Sup("w_stream", run_status)
                     /\ UNCHANGED <<state, step_result, observed>>
              [] kind = "content" ->
                     /\ Sup("w_bc_content", run_status)
                     /\ UNCHANGED <<state, step_result, observed>>
              [] kind = "error" ->
                     WriterReturns(writer_run_streaming(state, "error", FALSE),
                                   FALSE)
              [] kind = "done" ->
                     IF outline > 0
                     THEN /\ Sup("w_bc_sep", run_status)
                          /\ UNCHANGED <<state, step_result, observed>>
                     ELSE \E withImage \in BOOLEAN :
                              WriterReturns(
                                  writer_run_streaming(state, "ok", withImage),
                                  FALSE)
    /\ UNCHANGED <<calls_after_observed, step_calls, chapter>>

WriterThinking == WriterEvent("thinking")

WriterContent == WriterEvent("content")

WriterError == WriterEvent("error")

WriterDone == WriterEvent("done")

WriterContentBroadcast ==
    /\ pc = "w_bc_content"
    /\ BroadcastAwait("stream_writer", "w_stream")
    /\ StepSame

\* the blank line between chapters, then the next chapter
WriterSeparator ==
    /\ pc = "w_bc_sep"
    /\ BroadcastAwait("stream_writer", "w_chapter")
    /\ chapter' = chapter + 1
    /\ UNCHANGED <<state, step_result, observed, calls_after_observed, step_calls, events>>

\* the task is cancelled inside run_streaming, away from a broadcast:
\* "except asyncio.CancelledError" returns the cancelled state
CancelCaughtByWriter ==
    /\ run_task = "cancelling"
    /\ pc \in {"w_db_chapter", "w_stream"}
    /\ run_task' = "running"
    /\ WriterReturns(writer_run_streaming(state, "cancelled", FALSE), TRUE)
    /\ UNCHANGED <<cancel_event, calls_after_observed, step_calls, chapter, events>>

\* the writer's audit record is persisted; a failed state raises
\* RuntimeError, a set event CancelledError, else image or the guard is next
ExecPersistWriter ==
    /\ pc = "e_persist" /\ Running
    /\ UNCHANGED <<db_step_index, final_output>>
    /\ db_node_runs' = Persist(state)
    /\ pc' = IF state.node_status = "fail" \/ state.error # "None"
             THEN "h_failed"
             ELSE IF cancel_event = "set" THEN "h_cancel"
             ELSE IF state.draft = "image" THEN "e_bc_image"
             ELSE "g_call"
    /\ UNCHANGED <<run_status, broadcasts>>
    /\ RunFrame
    /\ StepSame

\* image.run returns (a failure is a returned state as well)
ImageReturn ==
    /\ pc = "i_call" /\ Running
    /\ \E ok \in BOOLEAN : state' = image_run(state, ok)
    /\ Sup("e_persist_image", run_status)
    /\ UNCHANGED <<step_result, observed, calls_after_observed, step_calls, chapter,
                   events>>

ExecPersistImage ==
    /\ pc = "e_persist_image" /\ Running
    /\ UNCHANGED <<db_step_index, final_output>>
    /\ db_node_runs' = Persist(state)
    /\ pc' = IF cancel_event = "set" THEN "h_cancel" ELSE "g_call"
    /\ UNCHANGED <<run_status, broadcasts>>
    /\ RunFrame
    /\ StepSame

\* mermaid_guard.run: a success (nothing to check, the model says ok, the
\* fixes are applied) or the except branch
mermaid_guard_run(s, ok) ==
    IF ok
    THEN [s EXCEPT !.node_runs = Append(@, NodeRun("guard", "success")),
                   !.current_node = "guard", !.node_status = "success",
                   !.error = "None"]
    ELSE ModelErrorState(s, "guard")

\* mermaid_guard.run returns, a failure being a returned state as well; the
\* supervisor goes on whatever it returned: run.final_md and
\* run.doc_variables are set and the new DocumentVersion is added to the
\* session, then the document is fetched
MermaidGuard ==
    /\ pc = "g_call" /\ Running
    /\ \E ok \in BOOLEAN : state' = mermaid_guard_run(state, ok)
    /\ pc' = "e_get_doc"
    /\ final_output' = "staged"
    /\ UNCHANGED <<run_status, broadcasts, db_node_runs, db_step_index>>
    /\ RunFrame
    /\ UNCHANGED <<step_result, observed, calls_after_observed, step_calls,
                   chapter, events>>

\* db.get(Document) returns: doc_obj.status = "completed" and
\* run.status = "completed" are set, the commit is awaited
ExecGetDocument ==
    /\ pc = "e_get_doc" /\ Running
    /\ Sup("e_commit", run_status)
    /\ StepSame

\* the final commit: final_md, the DocumentVersion, the document's and the
\* run's status "completed"
ExecCommit ==
    /\ pc = "e_commit" /\ Running
    /\ SupCommit("e_run_complete", "completed")
    /\ StepSame

NextRun ==
    \/ ChatBegin
    \/ ChatRunStart
    \/ ChatNodeUpdate
    \/ ControllerThinking
    \/ ControllerContent
    \/ ControllerStreamBroadcast
    \/ ControllerReturn
    \/ ChatFlush
    \/ ChatStreamDone
    \/ ChatPersist
    \/ ChatCommit
    \/ RunComplete
    \/ HandlerCancelled
    \/ HandlerCancelledBroadcast
    \/ HandlerFailed
    \/ HandlerFailedBroadcast
    \/ Finally
    \/ CancelPropagates
    \/ ExecBegin
    \/ ExecRunStart
    \/ ExecNodeUpdate
    \/ WriterEnter
    \/ WriterChapter
    \/ WriterChapterBroadcast
    \/ WriterChapterCommit
    \/ WriterThinking
    \/ WriterContent
    \/ WriterError
    \/ WriterDone
    \/ WriterContentBroadcast
    \/ WriterSeparator
    \/ CancelCaughtByWriter
    \/ ExecPersistWriter
    \/ ImageReturn
    \/ ExecPersistImage
    \/ MermaidGuard
    \/ ExecGetDocument
    \/ ExecCommit
    \/ ClientStop

SpecRun == InitRun /\ [][NextRun]_vars

Sent(e) == \E i \in DOMAIN broadcasts : broadcasts[i] = e

\* C6: when a stop is received while the run's streaming step is in progress,
\* the run ends with the persisted status cancelled (not failed, not
\* completed) and its observers are sent run_cancelled and no run_error.
C6_StopMeansCancelled ==
    (pc = "done" /\ stop_in_step) =>
        /\ run_status = "cancelled"
        /\ Sent("run_cancelled")
        /\ ~Sent("run_error")

\* C7: a streaming step during which the cancellation signal was set returns
\* a state with node_status fail and error kind cancelled, and starts no
\* model call after it saw the signal.
C7_StepReturnsCancelled ==
    (step_result # "none" /\ stop_in_step) =>
        /\ step_result = "returned"
        /\ state.node_status = "fail"
        /\ state.error = "cancelled"
        /\ calls_after_observed = 0

(***************************************************************************)
(* The thinking preview of controller.run_streaming.  Thinking text is     *)
(* kept by its length; a thinking event is [len, ban]: len characters, the *)
(* first banned phrase in them ending at character ban (0: none).          *)
(***************************************************************************)
ThinkSizes == {1, 2, 499, 500, 1001}

ThinkingEvents ==
    {e \in [len : ThinkSizes, ban : {0, 2} \cup ThinkSizes] :
        e.ban \in {0, e.len} \/ (e.ban = 2 /\ e.len >= 2)}

\* the slice is not cut at all
SliceAll(n, remaining) == n

\* len(content[:remaining])
Slice(n, remaining) == IF n <= remaining THEN n ELSE remaining

\* len(_sanitize_thinking_preview(text)) for a text of n characters whose
\* first banned phrase ends at character ban: "" when the text is empty or
\* holds the whole phrase
_sanitize_thinking_preview(n, ban) ==
    IF n = 0 \/ (ban > 0 /\ ban <= n) THEN 0 ELSE n

InitThink ==
    /\ state = InitialState(<<>>, FALSE)
    /\ GraphIdle
    /\ RunIdle
    /\ SplitIdle

\* one {"type": "thinking"} event of the stream; on_thinking broadcasts the
\* chunk as stream_thinking
OnThinking(e) ==
    /\ events < MaxThinking
    /\ events' = events + 1
    /\ full_reasoning' = full_reasoning + e.len
    /\ LET remaining == reasoning_preview_cap - reasoning_preview_sent
           chunk == _sanitize_thinking_preview(Slice(e.len, remaining),
                                               e.ban)
       IN IF reasoning_preview_sent < reasoning_preview_cap /\ chunk > 0
          THEN /\ reasoning_preview_sent' = reasoning_preview_sent + chunk
               /\ thinkingOut' = thinkingOut + chunk
               /\ lastEmits' = <<Emit("stream_thinking", chunk)>>
          ELSE /\ UNCHANGED <<reasoning_preview_sent, thinkingOut>>
               /\ lastEmits' = <<>>
    /\ UNCHANGED <<text, pos, mode, buf, chatOut, planOut, flushed>>
    /\ UNCHANGED funVars
    /\ UNCHANGED <<entry, pc, run_status, db_node_runs, db_step_index, final_output, broadcasts,
                   cancel_event, run_task, stops, stop_seen, steps_after_stop,
                   stop_in_step, step_result, observed, calls_after_observed, step_calls,
                   outline, chapter>>
    /\ UNCHANGED graphVars

ThinkingEvent == \E e \in ThinkingEvents : OnThinking(e)

NextThink == ThinkingEvent

SpecThink == InitThink /\ [][NextThink]_vars

\* C11: within one controller run the characters forwarded on the thinking
\* channel never exceed the budget of 1000, whatever the thinking events are,
\* and a thinking event puts nothing on the chat or the plan channel.
C11_ThinkingBudget ==
    /\ [](thinkingOut <= reasoning_preview_cap)
    /\ [][full_reasoning' # full_reasoning =>
              /\ UNCHANGED <<chatOut, planOut>>
              /\ \A i \in DOMAIN lastEmits' :
                     lastEmits'[i].event = "stream_thinking"]_vars

\* the budget is used up by an event that had to be cut
C11_Witness ==
    /\ thinkingOut = reasoning_preview_cap
    /\ full_reasoning > reasoning_preview_cap
    /\ lastEmits # <<>>

(***************************************************************************)
(* Claims about what a step returns                                        *)
(***************************************************************************)
\* C12: every execution of a step returns a state whose node_runs is the
\* input node_runs plus exactly one new record, with current_node the step's
\* own name.
C12_OneAuditRecord ==
    [][steps' # steps =>
          /\ state'.current_node = next_node
          /\ Len(state'.node_runs) = Len(state.node_runs) + 1
          /\ SubSeq(state'.node_runs, 1, Len(state.node_runs)) = state.node_runs
          /\ state'.node_runs[Len(state'.node_runs)].node_type = next_node]_vars

\* C13: no step raises to its caller, and a state returned on a failure path
\* has node_status fail and a populated error.
C13_NoStepRaises ==
    /\ step_result # "raised"
    /\ (step_result = "returned" /\ state.node_status = "fail")
           => state.error # "None"

\* C14: an execution that ends with node_status fail returns an error kind
\* and a retry_count one more than in the input state; any other execution
\* leaves retry_count unchanged.
C14_FailIncrementsRetry ==
    [][steps' # steps =>
          IF state'.node_status = "fail"
          THEN /\ state'.error # "None"
               /\ state'.retry_count = state.retry_count + 1
          ELSE state'.retry_count = state.retry_count]_vars

(***************************************************************************)
(* Runs from every entry point: /run (graph), /chat, /execute              *)
(***************************************************************************)
InitAll == InitGraph \/ InitRun

NextAll == NextGraph \/ NextRun

SpecAll == InitAll /\ [][NextAll]_vars

\* the step taken is an execution of the writer: writer.run as a graph node,
\* or the entry of writer.run_streaming in an execute run
WriterInvoked ==
    \/ entry = "run" /\ next_node = "writer" /\ steps' # steps
    \/ pc = "w_enter" /\ pc' # "w_enter"

\* C15: the writer, streaming or not, invoked with doc_variables holding none
\* of doc_type, outline and plan_md returns at once with node_status fail and
\* error kind validation_failed, has started no Model Gateway call, and
\* leaves the draft as it was.
C15_WriterValidation ==
    [][(WriterInvoked /\ ~state.has_doc_info) =>
          /\ state'.current_node = "writer"
          /\ state'.node_status = "fail"
          /\ state'.error = "validation_failed"
          /\ step_calls' = 0
          /\ state'.draft = state.draft
          /\ entry = "execute" => (pc' = "e_persist" /\ step_result' = "returned")
      ]_vars

\* writer.run_streaming has returned the validation failure to its supervisor
C15_Witness ==
    /\ entry = "execute" /\ pc = "e_persist" /\ step_result = "returned"
    /\ state.current_node = "writer"
    /\ state.error = "validation_failed"
    /\ step_calls = 0

\* ------------------------------------------------------------------------
\* Assembler (nodes/assembler.py).  A markdown text is a sequence of items:
\* plain text ("x"), text that mentions the key point ("k"), the heading of
\* the outline section ("h"), a placeholder {{KIND:desc}} whose description
\* is written with or without surrounding blanks, and, after substitution,
\* a fenced block of a kind holding a code.  The code of an artifact is its
\* own id, or "" for an artifact stored with an empty code.
\* ------------------------------------------------------------------------
MaxItems == 3

Kinds == {"MERMAID", "HTML"}
Descriptions == {"a", "b"}
TextItems == {[t |-> "text", v |-> v] : v \in {"x", "k", "h"}}
PlaceholderItems ==
    {[t |-> "ph", kind |-> k, desc |-> d, pad |-> p] :
        k \in Kinds, d \in Descriptions, p \in BOOLEAN}
DraftItems == TextItems \cup PlaceholderItems
Drafts == UNION {[1..n -> DraftItems] : n \in 0..MaxItems}

\* writer._extract_placeholders: ids number the placeholders of a kind in
\* text order; the description is stripped of surrounding blanks
RECURSIVE _extract_placeholders(_, _, _)
_extract_placeholders(md, kind, idx) ==
    IF md = <<>> THEN <<>>
    ELSE IF Head(md).t = "ph" /\ Head(md).kind = kind
         THEN <<[id |-> <<kind, idx>>, description |-> Head(md).desc]>>
              \o _extract_placeholders(Tail(md), kind, idx + 1)
         ELSE _extract_placeholders(Tail(md), kind, idx)

\* str.replace(placeholder, replacement): every occurrence of the exact
\* text {{KIND:description}} becomes the fenced block
Replace(md, kind, description, code) ==
    [i \in DOMAIN md |->
        IF md[i].t = "ph" /\ md[i].kind = kind /\ md[i].desc = description
           /\ ~md[i].pad
        THEN [t |-> "fence", kind |-> kind, code |-> code]
        ELSE md[i]]

\* the for loops over mermaid_placeholders and html_placeholders
RECURSIVE Substitute(_, _, _, _)
Substitute(phs, kind, codes, acc) ==
    IF phs = <<>> THEN acc
    ELSE LET ph == Head(phs) IN
         IF ph.id \in DOMAIN codes
         THEN Substitute(Tail(phs), kind, codes,
                  [acc EXCEPT !.final_md =
                      Replace(@, kind, ph.description, codes[ph.id])])
         ELSE Substitute(Tail(phs), kind, codes,
                  [acc EXCEPT !.errors = Append(@,
                      [type |-> kind, id |-> ph.id,
                       description |-> ph.description, pad |-> FALSE,
                       error |-> "no_code"])])

\* MERMAID_PATTERN.findall / HTML_PATTERN.findall on the substituted text
RECURSIVE Remaining(_, _)
Remaining(md, kind) ==
    IF md = <<>> THEN <<>>
    ELSE IF Head(md).t = "ph" /\ Head(md).kind = kind
         THEN <<[type |-> kind, id |-> "unknown",
                 description |-> Head(md).desc, pad |-> Head(md).pad,
                 error |-> "not_replaced"]>> \o Remaining(Tail(md), kind)
         ELSE Remaining(Tail(md), kind)

Has(md, item) == \E i \in DOMAIN md : md[i] = item

_check_consistency(final_md, doc_variables) ==
    (IF doc_variables.key_point /\ ~Has(final_md, [t |-> "text", v |-> "k"])
     THEN {"missing_key_point"} ELSE {})
    \cup
    (IF doc_variables.outline /\ ~Has(final_md, [t |-> "text", v |-> "h"])
     THEN {"missing_section"} ELSE {})
    \cup
    (IF \E i \in DOMAIN final_md :
            final_md[i].t = "fence" /\ final_md[i].code = ""
     THEN {"empty_code_block"} ELSE {})

assembler_run(s) ==
    IF s.draft_md = <<>>
    THEN [done |-> TRUE, node_status |-> "fail", error |-> "missing_draft",
          final_md |-> s.final_md, substituted |-> <<>>,
          assembly_errors |-> <<>>, consistency_issues |-> {},
          retry_count |-> s.retry_count, audited |-> FALSE]
    ELSE
    LET m == Substitute(s.mermaid_placeholders, "MERMAID", s.mermaid_codes,
                 [final_md |-> s.draft_md, errors |-> <<>>])
        h == Substitute(s.html_placeholders, "HTML", s.html_codes, m)
        final_md == h.final_md
        errors == h.errors \o Remaining(final_md, "MERMAID")
                           \o Remaining(final_md, "HTML")
        consistency_issues == _check_consistency(final_md, s.doc_variables)
    IN  IF errors # <<>>
        THEN [done |-> TRUE, node_status |-> "fail",
              error |-> "assembly_failed", final_md |-> s.final_md,
              substituted |-> final_md, assembly_errors |-> errors,
              consistency_issues |-> consistency_issues,
              retry_count |-> s.retry_count + 1, audited |-> TRUE]
        ELSE [done |-> TRUE, node_status |-> "success", error |-> "None",
              final_md |-> final_md, substituted |-> final_md,
              assembly_errors |-> <<>>,
              consistency_issues |-> consistency_issues,
              retry_count |-> s.retry_count, audited |-> TRUE]

\* the artifact maps the diagram step can have left: any subset of the
\* listed ids, each artifact with a code or with an empty one
Codes(phs) ==
    LET ids == {phs[i].id : i \in DOMAIN phs}
    IN  UNION {[present -> {"code", "empty"}] : present \in SUBSET ids}

CodeOf(codes) ==
    [id \in DOMAIN codes |-> IF codes[id] = "empty" THEN "" ELSE id]

InitAssemble ==
    /\ state = InitialState(<<>>, FALSE)
    /\ GraphIdle /\ RunIdle /\ ThinkIdle
    /\ text = <<>> /\ pos = 0 /\ mode = "chat" /\ buf = <<>>
    /\ chatOut = <<>> /\ planOut = <<>> /\ lastEmits = <<>> /\ flushed = FALSE
    /\ response = [done |-> FALSE] /\ parsed = [done |-> FALSE]
    /\ guard_in = [done |-> FALSE] /\ guard_out = [done |-> FALSE]
    /\ img_in = [done |-> FALSE] /\ img_out = [done |-> FALSE]
    /\ exported = [done |-> FALSE] /\ doc = [done |-> FALSE]
    /\ asm_out = [done |-> FALSE]
    /\ \E draft \in Drafts, kp \in BOOLEAN, ol \in BOOLEAN :
        LET mp == _extract_placeholders(draft, "MERMAID", 1)
            hp == _extract_placeholders(draft, "HTML", 1)
        IN  \E mc \in Codes(mp), hc \in Codes(hp) :
                asm_in = [done |-> TRUE,
                          draft_md |-> draft,
                          mermaid_placeholders |-> mp,
                          html_placeholders |-> hp,
                          mermaid_codes |-> CodeOf(mc),
                          html_codes |-> CodeOf(hc),
                          doc_variables |-> [key_point |-> kp, outline |-> ol],
                          final_md |-> <<>>,
                          retry_count |-> 0]

AssemblerRun ==
    /\ UNCHANGED <<exported, doc>>
    /\ asm_in.done /\ ~asm_out.done
    /\ asm_out' = assembler_run(asm_in)
    /\ UNCHANGED <<asm_in, response, parsed>>
    /\ UNCHANGED <<guard_in, guard_out, img_in, img_out>>
    /\ UNCHANGED <<text, pos, mode, buf, chatOut, planOut, lastEmits, flushed>>
    /\ UNCHANGED thinkVars
    /\ UNCHANGED graphVars
    /\ UNCHANGED runVars

NextAssemble == AssemblerRun

SpecAssemble == InitAssemble /\ [][NextAssemble]_vars

Listed(s) ==
    {s.mermaid_placeholders[i] : i \in DOMAIN s.mermaid_placeholders}
    \cup {s.html_placeholders[i] : i \in DOMAIN s.html_placeholders}

CodesOf(s, id) == IF id[1] = "MERMAID" THEN s.mermaid_codes ELSE s.html_codes

AllPresent(s) == \A ph \in Listed(s) : ph.id \in DOMAIN CodesOf(s, ph.id)

\* the id the writer gave the placeholder at position j of the draft
IdAt(md, j) ==
    <<md[j].kind,
      Cardinality({i \in 1..j : md[i].t = "ph" /\ md[i].kind = md[j].kind})>>

CountItems(md, t) == Cardinality({i \in DOMAIN md : md[i].t = t})

Assembled == asm_out.done /\ asm_in.draft_md # <<>>

\* C16: assembling a draft whose placeholders all have an artifact returns
\* success; the final text holds no placeholder, holds one fenced block for
\* each of the N placeholders, each placeholder is replaced where it stood by
\* its own artifact, and all other text is unchanged.
C16_AllPresentAssembles ==
    (Assembled /\ AllPresent(asm_in)) =>
        /\ asm_out.node_status = "success"
        /\ CountItems(asm_out.final_md, "ph") = 0
        /\ CountItems(asm_out.final_md, "fence")
               = Cardinality(Listed(asm_in))
        /\ DOMAIN asm_out.final_md = DOMAIN asm_in.draft_md
        /\ \A j \in DOMAIN asm_in.draft_md :
              LET item == asm_in.draft_md[j]
              IN  asm_out.final_md[j] =
                    IF item.t = "ph"
                    THEN [t |-> "fence", kind |-> item.kind,
                          code |-> CodesOf(asm_in, IdAt(asm_in.draft_md, j))
                                       [IdAt(asm_in.draft_md, j)]]
                    ELSE item

\* the entries of the itemized error list that are about a listed placeholder
EntriesFor(errors, ph) ==
    {i \in DOMAIN errors :
        /\ errors[i].type = ph.id[1]
        /\ errors[i].description = ph.description}

\* C17: when a listed placeholder has no entry in the artifact map the
\* assembler returns fail with error assembly_failed, its itemized error list
\* holds exactly one entry for that placeholder, and no final text is produced.
C17_MissingArtifactFails ==
    Assembled =>
        \A ph \in Listed(asm_in) :
            ph.id \notin DOMAIN CodesOf(asm_in, ph.id) =>
                /\ asm_out.node_status = "fail"
                /\ asm_out.error = "assembly_failed"
                /\ Cardinality(EntriesFor(asm_out.assembly_errors, ph)) = 1
                /\ asm_out.final_md = asm_in.final_md

\* C18: the assembler returns fail whenever, after substitution, placeholder
\* syntax is left in the text or a consistency check is violated, and success
\* only when neither holds.
C18_FailIffLeftoverOrInconsistent ==
    Assembled =>
        (asm_out.node_status = "fail"
            <=> \/ CountItems(asm_out.substituted, "ph") > 0
                \/ _check_consistency(asm_out.substituted,
                                      asm_in.doc_variables) # {})

\* ------------------------------------------------------------------------
\* Controller response parsing (nodes/controller.py).  A response is a
\* sequence of segments: a plain sentence ("w"), an opening and a closing
\* brace, a JSON array ("[]"), a markdown heading line ("##"), a numbered
\* list line ("1."), the plan marker ("P"), the chat marker ("C") and a
\* "(plan unchanged)" remark ("U").  Of the JSON documents only the empty
\* object and the array are written here; responses hold no code fence.
\* ------------------------------------------------------------------------
MaxResponse == 4

Segments == {"w", "{", "}", "[]", "##", "1.", "P", "C", "U"}
Responses == UNION {[1..n -> Segments] : n \in 0..MaxResponse}

SubSeqFrom(s, a, b) == IF a > b THEN <<>> ELSE SubSeq(s, a, b)
Positions(s, x) == {i \in DOMAIN s : s[i] = x}
Min(S) == CHOOSE i \in S : \A j \in S : i <= j
Max(S) == CHOOSE i \in S : \A j \in S : i >= j
RECURSIVE Without(_, _)
Without(s, x) ==
    IF s = <<>> THEN <<>>
    ELSE IF Head(s) = x THEN Without(Tail(s), x)
         ELSE <<Head(s)>> \o Without(Tail(s), x)

\* what json.loads makes of a text
json_loads(t) ==
    IF t = <<"{", "}">> THEN "object"
    ELSE IF t = <<"[]">> THEN "list"
    ELSE "JSONDecodeError"

_is_plan_unchanged(plan_text) ==
    plan_text = <<>> \/ Positions(plan_text, "U") # {}

\* _split_marked: <<reply, plan_md>>
_split_marked(s) ==
    IF Positions(s, "P") = {} THEN <<s, <<>>>>
    ELSE LET p == Min(Positions(s, "P"))
         IN  <<Without(SubSeqFrom(s, 1, p - 1), "C"),
               SubSeqFrom(s, p + 1, Len(s))>>

\* the heading and numbered-list lines of the plan, else its first lines
Outline(plan_md) ==
    LET titles == Without(Without(Without(Without(Without(Without(Without(
                      plan_md, "w"), "{"), "}"), "[]"), "P"), "C"), "U")
    IN  IF titles # <<>> THEN titles ELSE plan_md

_fallback_plan_from_text(raw) ==
    LET reply == _split_marked(raw)[1]
        marked == _split_marked(raw)[2]
    IN  IF _is_plan_unchanged(marked)
        THEN [done |-> TRUE, raised |-> FALSE, has_reply |-> TRUE,
              reply |-> reply, plan_md |-> <<>>, outline |-> <<>>,
              ready_to_write |-> FALSE, plan_unchanged |-> TRUE]
        ELSE
        LET looks_like_plan == Positions(raw, "##") # {}
            plan_md == IF marked = <<>> /\ looks_like_plan THEN raw
                       ELSE marked
            reply2 == IF marked = <<>> /\ looks_like_plan THEN <<"notice">>
                      ELSE reply
        IN  [done |-> TRUE, raised |-> FALSE, has_reply |-> TRUE,
             reply |-> reply2, plan_md |-> plan_md,
             outline |-> IF plan_md # <<>> THEN Outline(plan_md) ELSE <<>>,
             ready_to_write |-> FALSE, plan_unchanged |-> FALSE]

_parse_controller_response(r) ==
    LET opens == Positions(r, "{")
        closes == Positions(r, "}")
        t == IF r # <<>> /\ r[1] # "{" /\ opens # {} /\ closes # {}
             THEN SubSeqFrom(r, Min(opens), Max(closes))
             ELSE r
    IN  CASE json_loads(t) = "JSONDecodeError" ->
                 _fallback_plan_from_text(r)
          [] json_loads(t) = "object" ->
                 \* the model's dict with missing_fields, next_questions
                 \* and decision filled in: no reply, no plan_md
                 [done |-> TRUE, raised |-> FALSE, has_reply |-> FALSE,
                  reply |-> <<>>, plan_md |-> <<>>, outline |-> <<>>,
                  ready_to_write |-> FALSE, plan_unchanged |-> FALSE]
          [] OTHER ->
                 \* result.get on a list: AttributeError, not caught
                 [done |-> TRUE, raised |-> TRUE, has_reply |-> FALSE,
                  reply |-> <<>>, plan_md |-> <<>>, outline |-> <<>>,
                  ready_to_write |-> FALSE, plan_unchanged |-> FALSE]

InitParse ==
    /\ state = InitialState(<<>>, FALSE)
    /\ GraphIdle /\ RunIdle /\ ThinkIdle
    /\ text = <<>> /\ pos = 0 /\ mode = "chat" /\ buf = <<>>
    /\ chatOut = <<>> /\ planOut = <<>> /\ lastEmits = <<>> /\ flushed = FALSE
    /\ asm_in = [done |-> FALSE] /\ asm_out = [done |-> FALSE]
    /\ guard_in = [done |-> FALSE] /\ guard_out = [done |-> FALSE]
    /\ img_in = [done |-> FALSE] /\ img_out = [done |-> FALSE]
    /\ exported = [done |-> FALSE] /\ doc = [done |-> FALSE]
    /\ parsed = [done |-> FALSE]
    /\ \E r \in Responses : response = [done |-> TRUE, text |-> r]

ParseResponse ==
    /\ UNCHANGED <<exported, doc>>
    /\ response.done /\ ~parsed.done
    /\ parsed' = _parse_controller_response(response.text)
    /\ UNCHANGED <<asm_in, asm_out, response>>
    /\ UNCHANGED <<guard_in, guard_out, img_in, img_out>>
    /\ UNCHANGED <<text, pos, mode, buf, chatOut, planOut, lastEmits, flushed>>
    /\ UNCHANGED thinkVars
    /\ UNCHANGED graphVars
    /\ UNCHANGED runVars

NextParse == ParseResponse

SpecParse == InitParse /\ [][NextParse]_vars

HeadingLike(r) == Positions(r, "##") # {} \/ Positions(r, "1.") # {}
NoPlanMarker(r) == Positions(r, "P") = {}
Parsed == response.done /\ parsed.done

\* C19: for every response with no plan marker and no heading-like
\* structure that is not a JSON object (text that is not JSON, text that
\* merely contains braces, JSON that is not an object) the parse does not
\* raise and returns plan_md "", reply = the full response, ready_to_write
\* false.
C19_PlainTextIsReplyOnly ==
    (/\ Parsed
     /\ NoPlanMarker(response.text)
     /\ ~HeadingLike(response.text)
     /\ json_loads(response.text) # "object") =>
        /\ ~parsed.raised
        /\ parsed.plan_md = <<>>
        /\ parsed.has_reply /\ parsed.reply = response.text
        /\ ~parsed.ready_to_write

\* C20: for a response that is not JSON and holds no plan marker: when the
\* text looks structured (headings or a numbered list) the whole response
\* becomes the plan (plan_md and outline set from it); otherwise the whole
\* response becomes the reply and the plan is not changed.
C20_MalformedFallback ==
    (/\ Parsed
     /\ NoPlanMarker(response.text)
     /\ Positions(response.text, "{") = {}
     /\ Positions(response.text, "}") = {}
     /\ json_loads(response.text) = "JSONDecodeError") =>
        IF HeadingLike(response.text)
        THEN /\ parsed.plan_md = response.text
             /\ parsed.outline # <<>>
        ELSE /\ parsed.has_reply /\ parsed.reply = response.text
             /\ parsed.plan_md = <<>>

\* ------------------------------------------------------------------------
\* Guard (nodes/mermaid_guard.py).  The draft is a sequence of items: plain
\* text and fenced blocks of a kind holding a code.  The model's answer is
\* "ok", an error (the call raises, or the answer is not JSON), or ok = false
\* with the two fix sets; a fix set is a list of {index, code} or something
\* that is not a list.  Code "" stands for a code that is empty, blank or
\* not a string, index -1 for one that is negative or not an integer.
\* ------------------------------------------------------------------------
MaxGuardItems == 3
MaxFixes == 2

BlockKinds == {"mermaid", "html"}
BlockCodes == {"a", "b"}
GuardItems ==
    {[t |-> "text", v |-> "x"]}
    \cup {[t |-> "fence", kind |-> k, code |-> c] :
             k \in BlockKinds, c \in BlockCodes}
GuardDrafts == UNION {[1..n -> GuardItems] : n \in 1..MaxGuardItems}

Fixes(indexes, codes) ==
    {[index |-> i, code |-> c] : i \in indexes, c \in codes}
FixLists(fixes, n) ==
    {[list |-> FALSE, items |-> <<>>]}
    \cup {[list |-> TRUE, items |-> f] :
             f \in UNION {[1..k -> fixes] : k \in 0..n}}

\* MERMAID_BLOCK_RE.finditer / HTML_BLOCK_RE.finditer: the codes of the
\* blocks of a kind, in text order
RECURSIVE BlockMatches(_, _)
BlockMatches(md, kind) ==
    IF md = <<>> THEN <<>>
    ELSE IF Head(md).t = "fence" /\ Head(md).kind = kind
         THEN <<Head(md).code>> \o BlockMatches(Tail(md), kind)
         ELSE BlockMatches(Tail(md), kind)

\* str.replace(old, new, 1): the first occurrence of the old block's text
ReplaceOnce(md, old, new) ==
    LET hits == {i \in DOMAIN md : md[i] = old}
    IN  IF hits = {} THEN md
        ELSE [md EXCEPT ![CHOOSE i \in hits : \A j \in hits : i <= j] = new]

\* the loop over fixed_mermaid_blocks (fixed_html_blocks)
RECURSIVE ApplyFixes(_, _, _, _)
ApplyFixes(items, kind, matches, new_md) ==
    IF items = <<>> THEN new_md
    ELSE LET idx == Head(items).index
             code == Head(items).code
         IN  IF idx < 0 \/ idx >= Len(matches) \/ code = ""
             THEN ApplyFixes(Tail(items), kind, matches, new_md)
             ELSE ApplyFixes(Tail(items), kind, matches,
                      ReplaceOnce(new_md,
                          [t |-> "fence", kind |-> kind,
                           code |-> matches[idx + 1]],
                          [t |-> "fence", kind |-> kind, code |-> code]))

GuardResult(s, status, draft, calls) ==
    [done |-> TRUE, node_status |-> status,
     error |-> IF status = "fail" THEN "model_error" ELSE "None",
     draft_md |-> draft, model_calls |-> calls,
     retry_count |-> IF status = "fail" THEN s.retry_count + 1
                     ELSE s.retry_count]

guard_run(s) ==
    LET mermaid_blocks == BlockMatches(s.draft_md, "mermaid")
        html_blocks == BlockMatches(s.draft_md, "html")
        res == s.answer
    IN  IF mermaid_blocks = <<>> /\ html_blocks = <<>>
        THEN GuardResult(s, "success", s.draft_md, 0)
        ELSE IF res.kind = "error"
        THEN GuardResult(s, "fail", s.draft_md, 1)
        ELSE IF res.kind = "ok"
        THEN GuardResult(s, "success", s.draft_md, 1)
        ELSE IF ~res.fixed_mermaid_blocks.list \/ ~res.fixed_html_blocks.list
        THEN GuardResult(s, "fail", s.draft_md, 1)
        ELSE IF res.fixed_mermaid_blocks.items = <<>>
                /\ res.fixed_html_blocks.items = <<>>
        THEN GuardResult(s, "fail", s.draft_md, 1)
        ELSE GuardResult(s, "success",
                 ApplyFixes(res.fixed_html_blocks.items, "html", html_blocks,
                     ApplyFixes(res.fixed_mermaid_blocks.items, "mermaid",
                                mermaid_blocks, s.draft_md)),
                 1)

Answers ==
    {[kind |-> k, fixed_mermaid_blocks |-> [list |-> TRUE, items |-> <<>>],
      fixed_html_blocks |-> [list |-> TRUE, items |-> <<>>]] :
        k \in {"ok", "error"}}
    \cup {[kind |-> "fixes", fixed_mermaid_blocks |-> fm,
           fixed_html_blocks |-> fh] :
             fm \in FixLists(Fixes(-1..MaxGuardItems - 1, {"", "a", "c"}),
                             MaxFixes),
             fh \in FixLists(Fixes({0}, {"", "c"}), 1)}

InitGuard ==
    /\ state = InitialState(<<>>, FALSE)
    /\ GraphIdle /\ RunIdle /\ ThinkIdle
    /\ text = <<>> /\ pos = 0 /\ mode = "chat" /\ buf = <<>>
    /\ chatOut = <<>> /\ planOut = <<>> /\ lastEmits = <<>> /\ flushed = FALSE
    /\ asm_in = [done |-> FALSE] /\ asm_out = [done |-> FALSE]
    /\ response = [done |-> FALSE] /\ parsed = [done |-> FALSE]
    /\ img_in = [done |-> FALSE] /\ img_out = [done |-> FALSE]
    /\ exported = [done |-> FALSE] /\ doc = [done |-> FALSE]
    /\ guard_out = [done |-> FALSE]
    /\ \E draft \in GuardDrafts, ans \in Answers :
          guard_in = [done |-> TRUE, draft_md |-> draft, answer |-> ans,
                      retry_count |-> 0]

GuardRun ==
    /\ UNCHANGED <<exported, doc>>
    /\ guard_in.done /\ ~guard_out.done
    /\ guard_out' = guard_run(guard_in)
    /\ UNCHANGED <<asm_in, asm_out, response, parsed, guard_in, img_in,
                   img_out>>
    /\ UNCHANGED <<text, pos, mode, buf, chatOut, planOut, lastEmits, flushed>>
    /\ UNCHANGED thinkVars
    /\ UNCHANGED graphVars
    /\ UNCHANGED runVars

NextGuard == GuardRun

SpecGuard == InitGuard /\ [][NextGuard]_vars

\* a fix the guard applies: index in range of the kind's blocks, code given
Applicable(fix, md, kind) ==
    /\ fix.index >= 0 /\ fix.index < Len(BlockMatches(md, kind))
    /\ fix.code # ""

\* position in the draft of the i-th (from 0) block of a kind
BlockPosition(md, kind, i) ==
    CHOOSE p \in DOMAIN md :
        /\ md[p].t = "fence" /\ md[p].kind = kind
        /\ Cardinality({q \in 1..p : md[q].t = "fence" /\ md[q].kind = kind})
              = i + 1

\* the draft with the fixes put at their positions, in the order given
RECURSIVE Positional(_, _, _)
Positional(items, kind, md) ==
    IF items = <<>> THEN md
    ELSE IF Applicable(Head(items), md, kind)
         THEN Positional(Tail(items), kind,
                  [md EXCEPT ![BlockPosition(md, kind, Head(items).index)].code
                      = Head(items).code])
         ELSE Positional(Tail(items), kind, md)

FixesGiven ==
    /\ guard_in.done /\ guard_out.done
    /\ BlockMatches(guard_in.draft_md, "mermaid")
          \o BlockMatches(guard_in.draft_md, "html") # <<>>
    /\ guard_in.answer.kind = "fixes"

\* C21: when the guard applies a fix {index i, code}, the i-th block of that
\* kind (by position in the draft) receives the code, and every other block
\* and all other text are unchanged.
C21_PositionalFix ==
    (/\ FixesGiven
     /\ guard_out.node_status = "success") =>
        guard_out.draft_md =
            Positional(guard_in.answer.fixed_html_blocks.items, "html",
                Positional(guard_in.answer.fixed_mermaid_blocks.items,
                           "mermaid", guard_in.draft_md))

NoApplicableFix ==
    /\ \A i \in DOMAIN guard_in.answer.fixed_mermaid_blocks.items :
          ~Applicable(guard_in.answer.fixed_mermaid_blocks.items[i],
                      guard_in.draft_md, "mermaid")
    /\ \A i \in DOMAIN guard_in.answer.fixed_html_blocks.items :
          ~Applicable(guard_in.answer.fixed_html_blocks.items[i],
                      guard_in.draft_md, "html")

\* C22: when the model answers ok = false and the fix set is empty, is
\* malformed or holds no applicable fix, the guard returns fail, never
\* success with the draft unchanged.
C22_NoFixIsFailure ==
    (/\ FixesGiven
     /\ \/ ~guard_in.answer.fixed_mermaid_blocks.list
        \/ ~guard_in.answer.fixed_html_blocks.list
        \/ NoApplicableFix) =>
        guard_out.node_status = "fail"

\* ------------------------------------------------------------------------
\* Image step (nodes/image.py).  The draft is a sequence of items: plain
\* text and image placeholders {{image+prompt}}; prompt "" stands for a
\* prompt of blanks only.  What the image service does on the k-th request
\* of the step is an input: "ok" (a url is returned, downloaded and saved),
\* "no_url" (an empty answer) or "error" (the request, the download or the
\* save raises).  The url of a saved image names the request it came from.
\* ------------------------------------------------------------------------
MaxImageItems == 3

Prompts == {"p", "q", ""}
\* how a placeholder is written in the draft: "exact" {{image+p}}, "upper"
\* {{IMAGE+p}} (IMAGE_PATTERN ignores case), "padded" {{image+ p }} (the
\* prompt is stripped)
ImageForms == {"exact", "upper", "padded"}
ImageItems ==
    {[t |-> "text", v |-> "x"]}
    \cup {[t |-> "img", prompt |-> p, form |-> "exact"] : p \in Prompts}
    \cup {[t |-> "img", prompt |-> "p", form |-> f] : f \in ImageForms}
ImageDrafts == UNION {[1..n -> ImageItems] : n \in 0..MaxImageItems}
ServiceOutcomes == {"ok", "no_url", "error"}

\* IMAGE_PATTERN.finditer, stripped, blank prompts dropped
RECURSIVE ImagePlaceholders(_)
ImagePlaceholders(md) ==
    IF md = <<>> THEN <<>>
    ELSE IF Head(md).t = "img" /\ Head(md).prompt # ""
         THEN <<Head(md).prompt>> \o ImagePlaceholders(Tail(md))
         ELSE ImagePlaceholders(Tail(md))

\* the for loop: one request per placeholder, left at the first failure
RECURSIVE ImageLoop(_, _, _, _)
ImageLoop(placeholders, outcomes, k, acc) ==
    IF k > Len(placeholders) THEN acc
    ELSE IF outcomes[k] = "ok"
         THEN ImageLoop(placeholders, outcomes, k + 1,
                  [acc EXCEPT !.calls = k,
                              !.urls = Append(@, <<"url", k>>),
                              !.generated = Append(@,
                                  [placeholder |-> placeholders[k],
                                   prompt |-> placeholders[k],
                                   url |-> <<"url", k>>])])
         ELSE [acc EXCEPT !.calls = k, !.failed = TRUE]

\* the return of the except branch
ImageFailurePartial(s, acc) ==
    [done |-> TRUE, node_status |-> "fail", error |-> "model_error",
     draft_md |-> s.draft_md, image_urls |-> acc.urls,
     generated_images |-> s.generated_images \o acc.generated,
     calls |-> acc.calls, requested |-> acc.requested,
     retry_count |-> s.retry_count + 1]

ImageFailure(s, acc) ==
    [done |-> TRUE, node_status |-> "fail", error |-> "model_error",
     draft_md |-> s.draft_md, image_urls |-> s.image_urls,
     generated_images |-> s.generated_images,
     calls |-> acc.calls, requested |-> acc.requested,
     retry_count |-> s.retry_count + 1]

\* the return after the loop
ImageSuccessSubstituted(s, acc) ==
    [done |-> TRUE, node_status |-> "success", error |-> "None",
     draft_md |-> [i \in DOMAIN s.draft_md |->
                      IF s.draft_md[i].t = "img" /\ s.draft_md[i].prompt # ""
                      THEN [t |-> "text", v |-> "link"]
                      ELSE s.draft_md[i]],
     image_urls |-> acc.urls,
     generated_images |-> s.generated_images \o acc.generated,
     calls |-> acc.calls, requested |-> acc.requested,
     retry_count |-> s.retry_count]

ImageSuccess(s, acc) ==
    [done |-> TRUE, node_status |-> "success", error |-> "None",
     draft_md |-> s.draft_md, image_urls |-> acc.urls,
     generated_images |-> s.generated_images \o acc.generated,
     calls |-> acc.calls, requested |-> acc.requested,
     retry_count |-> s.retry_count]

image_generate(s) ==
    LET placeholders == ImagePlaceholders(s.draft_md)
    IN  IF placeholders = <<>>
        THEN [done |-> TRUE, node_status |-> "success", error |-> "None",
              draft_md |-> s.draft_md, image_urls |-> s.image_urls,
              generated_images |-> s.generated_images,
              calls |-> 0, requested |-> <<>>,
              retry_count |-> s.retry_count]
        ELSE LET acc == ImageLoop(placeholders, s.outcomes, 1,
                            [calls |-> 0, urls |-> <<>>, generated |-> <<>>,
                             failed |-> FALSE, requested |-> placeholders])
             IN  IF acc.failed THEN ImageFailure(s, acc)
                 ELSE ImageSuccess(s, acc)

InitImage ==
    /\ state = InitialState(<<>>, FALSE)
    /\ GraphIdle /\ RunIdle /\ ThinkIdle
    /\ text = <<>> /\ pos = 0 /\ mode = "chat" /\ buf = <<>>
    /\ chatOut = <<>> /\ planOut = <<>> /\ lastEmits = <<>> /\ flushed = FALSE
    /\ asm_in = [done |-> FALSE] /\ asm_out = [done |-> FALSE]
    /\ response = [done |-> FALSE] /\ parsed = [done |-> FALSE]
    /\ guard_in = [done |-> FALSE] /\ guard_out = [done |-> FALSE]
    /\ img_out = [done |-> FALSE]
    /\ exported = [done |-> FALSE] /\ doc = [done |-> FALSE]
    /\ \E draft \in ImageDrafts, earlier \in BOOLEAN :
        \E outcomes \in [1..Len(ImagePlaceholders(draft)) -> ServiceOutcomes] :
            img_in = [done |-> TRUE, draft_md |-> draft,
                      outcomes |-> outcomes,
                      image_urls |->
                          IF earlier THEN <<<<"url", 0>>>> ELSE <<>>,
                      generated_images |->
                          IF earlier
                          THEN <<[placeholder |-> "p", prompt |-> "p",
                                  url |-> <<"url", 0>>]>>
                          ELSE <<>>,
                      retry_count |-> 0]

ImageRun ==
    /\ UNCHANGED <<exported, doc>>
    /\ img_in.done /\ ~img_out.done
    /\ img_out' = image_generate(img_in)
    /\ UNCHANGED <<asm_in, asm_out, response, parsed, guard_in, guard_out,
                   img_in>>
    /\ UNCHANGED <<text, pos, mode, buf, chatOut, planOut, lastEmits, flushed>>
    /\ UNCHANGED thinkVars
    /\ UNCHANGED graphVars
    /\ UNCHANGED runVars

NextImage == ImageRun

SpecImage == InitImage /\ [][NextImage]_vars

\* ------------------------------------------------------------------------
\* Export (routers/export.py).  The recorded placeholder of an image is the
\* text "{{image+" + prompt + "}}" built by the image step from the stripped
\* prompt: the "exact" form.  str.replace rewrites the occurrences of that
\* text, character for character.
\* ------------------------------------------------------------------------
\* md.replace(placeholder, f"![]({url})")
ReplacePlaceholder(md, item) ==
    [i \in DOMAIN md |->
        IF md[i].t = "img" /\ md[i].form = "exact"
           /\ md[i].prompt = item.placeholder
        THEN [t |-> "link", url |-> item.url]
        ELSE md[i]]

\* the loop over doc_variables.generated_images
RECURSIVE _apply_generated_images(_, _)
_apply_generated_images(md, gen) ==
    IF gen = <<>> THEN md
    ELSE _apply_generated_images(ReplacePlaceholder(md, Head(gen)),
                                 Tail(gen))

\* the document is exported with the draft and the generated_images the
\* image step returned
ExportRun ==
    /\ img_out.done /\ ~exported.done
    /\ exported' =
           [done |-> TRUE,
            md |-> _apply_generated_images(img_out.draft_md,
                                           img_out.generated_images)]
    /\ UNCHANGED <<asm_in, asm_out, response, parsed, guard_in, guard_out,
                   img_in, img_out, doc>>
    /\ UNCHANGED <<text, pos, mode, buf, chatOut, planOut, lastEmits, flushed>>
    /\ UNCHANGED thinkVars
    /\ UNCHANGED graphVars
    /\ UNCHANGED runVars

NextExport == ImageRun \/ ExportRun

SpecExport == InitImage /\ [][NextExport]_vars

ImageDone == img_in.done /\ img_out.done

\* C23: the image step never changes the draft: with no placeholder, on
\* success and on failure the returned draft is the input draft, image
\* placeholders included.
C23_DraftUntouched ==
    ImageDone => img_out.draft_md = img_in.draft_md

\* an image was generated for a placeholder and the step succeeded
C23_Witness ==
    /\ ImageDone
    /\ img_out.node_status = "success"
    /\ img_out.calls >= 1
    /\ \E i \in DOMAIN img_out.draft_md : img_out.draft_md[i].t = "img"

\* C24: when generation or download fails for a placeholder the step returns
\* fail and the image set of the returned state (image_urls and
\* generated_images) is the input state's: images generated earlier in the
\* same execution are not recorded.
C24_NoPartialImages ==
    (ImageDone /\ img_out.calls >= 1
       /\ \E k \in 1..img_out.calls : img_in.outcomes[k] # "ok") =>
        /\ img_out.node_status = "fail"
        /\ img_out.image_urls = img_in.image_urls
        /\ img_out.generated_images = img_in.generated_images

\* the second request failed after the first image was generated and saved
C24_Witness ==
    /\ ImageDone
    /\ img_out.node_status = "fail"
    /\ img_out.calls = 2
    /\ img_in.outcomes[1] = "ok" /\ img_in.outcomes[2] # "ok"

Distinct(s) == {s[i] : i \in DOMAIN s}

\* C25: the image step requests one image per distinct placeholder prompt of
\* the draft: a prompt that occurs several times leads to one generation
\* call and one recorded {placeholder, prompt, url}.
C25_OnePerDistinctPrompt ==
    (ImageDone /\ img_out.node_status = "success") =>
        LET prompts == Distinct(ImagePlaceholders(img_in.draft_md))
            recorded == SubSeqFrom(img_out.generated_images,
                                   Len(img_in.generated_images) + 1,
                                   Len(img_out.generated_images))
        IN  /\ img_out.calls = Cardinality(prompts)
            /\ Len(recorded) = Cardinality(prompts)

\* ------------------------------------------------------------------------
\* Claims about how the supervisors treat what the steps return
\* ------------------------------------------------------------------------

\* C26: in an execute run, whenever a production step (writer, image or
\* guard) ends with node_status fail, observers receive run_error and the run
\* is neither persisted as completed nor announced as completed.
C26_ProductionFailureSurfaces ==
    (/\ entry = "execute" /\ pc = "done" /\ ~stop_seen
     /\ \E i \in DOMAIN state.node_runs :
            /\ state.node_runs[i].node_type \in {"writer", "image", "guard"}
            /\ state.node_runs[i].status = "fail") =>
        /\ run_status = "failed"
        /\ Sent("run_error")
        /\ ~Sent("run_complete")

\* the run is between the start and the return of a step
InStep == pc \in StepPcs \cup SyncPcs \cup {"i_call", "g_call"}

\* C27 as stated: between the start and the return of a step nothing is
\* written to the persistence layer (audit rows, run status, run variables).
C27_NoWriteMidStep ==
    [][InStep => UNCHANGED <<db_node_runs, run_status, db_step_index>>]_vars

\* C27: between the start and the return of a step the only persistence
\* write is the writer's chapter progress (current_step_index, committed by
\* on_chapter when a chapter starts); audit rows and the run status are
\* written only before a step starts or after it has returned.
C27_OnlyChapterProgressMidStep ==
    [][InStep =>
          /\ UNCHANGED <<db_node_runs, run_status>>
          /\ db_step_index' # db_step_index =>
                (pc = "w_db_chapter" /\ db_step_index' = chapter)]_vars

\* the second chapter is being streamed, its progress committed, and no
\* audit row written yet
C27_Witness ==
    /\ pc = "w_stream" /\ chapter = 1 /\ db_step_index = 1
    /\ db_node_runs = <<>>

\* the controller step of a chat run returned a failed state (model_error)
ControllerFailed ==
    /\ entry = "chat" /\ step_result = "returned"
    /\ state.node_status = "fail" /\ state.error = "model_error"

\* C28: in a chat run a failure of the controller step never gives run_error
\* or a failed run; unless the user stops it the turn ends with stream_done
\* followed by run_complete, the run completed.
C28_ChatFailureIsGraceful ==
    ControllerFailed =>
        /\ run_status # "failed"
        /\ ~Sent("run_error")
        /\ (pc = "done" /\ ~stop_seen) =>
              /\ run_status = "completed"
              /\ \E i, j \in DOMAIN broadcasts :
                    /\ i < j
                    /\ broadcasts[i] = "stream_done"
                    /\ broadcasts[j] = "run_complete"

\* the model call failed and the turn has ended
C28_Witness ==
    /\ ControllerFailed /\ pc = "done" /\ ~stop_seen
    /\ run_status = "completed" /\ Sent("run_complete")

IsPrefix(a, b) == Len(a) <= Len(b) /\ SubSeq(b, 1, Len(a)) = a

\* C29: after any step execution the input audit log is a prefix of the
\* output audit log: no step removes, reorders or rewrites a record.
C29_AuditLogGrows ==
    [][IsPrefix(state.node_runs, state'.node_runs)]_vars

\* a step failed after two others had written their records
C29_Witness ==
    /\ Len(state.node_runs) >= 3
    /\ state.node_runs[Len(state.node_runs)].status = "fail"

\* the next step of the run is about to start or has started
NextStepStarts ==
    \/ entry = "execute" /\ pc \in {"e_bc_image", "i_call", "g_call"}
    \/ entry = "run" /\ pc = "graph" /\ steps > 0 /\ next_node # "END"

\* C30: in every run the audit record of a completed step is committed to
\* persistent storage before the next step of that run starts.
C30_RecordCommittedBeforeNextStep ==
    (NextStepStarts /\ state.node_runs # <<>>) =>
        /\ db_node_runs # <<>>
        /\ db_node_runs[Len(db_node_runs)]
              = state.node_runs[Len(state.node_runs)]

\* the image step is running, the writer's record committed
C30_Witness ==
    /\ entry = "execute" /\ pc = "i_call"
    /\ db_node_runs = <<NodeRun("writer", "success")>>

\* C31: within one stream the splitter switches channel at most once, from
\* chat to plan, and never back: once in plan mode it stays there and emits
\* only stream_plan, within one push every stream_content precedes every
\* stream_plan, and after the flush the plan channel has carried exactly the
\* text that follows the first plan marker, later markers included.
C31_SwitchOnce ==
    [][ /\ mode = "plan" => mode' = "plan"
        /\ mode = "plan" =>
               \A i \in DOMAIN lastEmits' : lastEmits'[i].event = "stream_plan"
        /\ \A i, j \in DOMAIN lastEmits' :
               (lastEmits'[i].event = "stream_plan"
                    /\ lastEmits'[j].event = "stream_content") => j < i
        /\ (flushed' /\ Find(text, plan_marker) >= 0) =>
               planOut' = Drop(text, Find(text, plan_marker) + Len(plan_marker))
      ]_vars

\* a flushed stream with chat text, a plan marker and a further marker after it
C31_Witness ==
    /\ flushed
    /\ Find(text, plan_marker) >= 0
    /\ chatOut # <<>>
    /\ LET rest == Drop(text, Find(text, plan_marker) + Len(plan_marker)) IN
           /\ (Find(rest, chat_marker) >= 0 \/ Find(rest, plan_marker) >= 0)
           /\ planOut = rest

\* C32: when writer.run_streaming returns a failed state (cancellation, or a
\* model or stream error), what it had streamed is discarded: the draft of
\* the returned state (draft_md with the two placeholder lists extracted from
\* it, which only the success return assigns) is the draft of the input state.
C32_PartialOutputDiscarded ==
    [][ (pc \in {"w_enter", "w_chapter", "w_db_chapter", "w_stream"}
            /\ pc' = "e_persist" /\ state'.node_status = "fail")
        => state'.draft = state.draft ]_vars

\* the writer has returned a failure after a chunk was received and broadcast
C32_Witness ==
    /\ entry = "execute" /\ pc = "e_persist"
    /\ state.node_status = "fail"
    /\ state.error \in {"cancelled", "model_error"}
    /\ Sent("stream_writer")
    /\ state.draft = "none"

\* positions inside writer.run_streaming
WriterPcs == {"w_enter", "w_chapter", "w_bc_chapter", "w_db_chapter",
              "w_stream", "w_bc_content", "w_bc_sep"}

\* C33: a run whose state carries a pre-decomposed skill list is executed by
\* running those skills one after another instead of the writer pipeline: it
\* never enters the writer and persists no writer record.
C33_SkillListReplacesWriter ==
    (entry = "execute" /\ state.skills) =>
        /\ pc \notin WriterPcs
        /\ \A i \in DOMAIN db_node_runs : db_node_runs[i].node_type # "writer"

\* C34: every execution of the step graph reaches END after finitely many
\* step executions, for every combination of step outcomes.  A run that
\* terminates on every combination of outcomes never comes back to the
\* configuration it was in: no step execution leaves the state as it was
\* and is routed to the same step again.
C34_EveryStepProgresses ==
    [][ steps' = steps + 1 => ~(next_node' = next_node /\ state' = state) ]_vars

\* C35: after the attachment step returns success no attachment of the state
\* is pending: every attachment has a non-empty summary, and the controller's
\* router has nothing to send to the attachment step.
C35_NoPendingAfterSuccess ==
    (state.current_node = "attachment" /\ state.node_status = "success")
        => Pending(state.attachments) = {}

\* C39: in a graph run each step execution results in exactly one persisted
\* node-run row, whose node type and status are those of the step that just
\* executed.
C39_OneRowPerStep ==
    [][ steps' = steps + 1 =>
            /\ Len(db_node_runs') = Len(db_node_runs) + 1
            /\ db_node_runs'[Len(db_node_runs')] =
                   NodeRun(next_node, state'.node_status) ]_vars

TerminalEvents == {"run_complete", "run_error", "run_cancelled"}

TerminalEvent(status) ==
    CASE status = "completed" -> "run_complete"
      [] status = "failed" -> "run_error"
      [] status = "cancelled" -> "run_cancelled"
      [] OTHER -> "none"

\* C36: a chat or execute run that has ended has exactly one terminal
\* persisted status (completed, failed or cancelled) and has broadcast exactly
\* one terminal event, the one matching that status, as its last broadcast,
\* whatever stops arrived and whenever.
C36_OneTerminalOutcome ==
    (entry \in {"chat", "execute"} /\ pc = "done") =>
        /\ run_status \in {"completed", "failed", "cancelled"}
        /\ broadcasts # <<>>
        /\ broadcasts[Len(broadcasts)] = TerminalEvent(run_status)
        /\ \A i \in 1..(Len(broadcasts) - 1) :
               broadcasts[i] \notin TerminalEvents

\* C37: an execute run whose persisted status is cancelled or failed has
\* persisted no final output: no new document version, no final_md, wherever
\* the stop or the failure occurred.
C37_NoOutputUnlessCompleted ==
    (entry = "execute" /\ run_status \in {"cancelled", "failed"})
        => final_output # "committed"

\* C40: every image placeholder the image step recognised in the draft and
\* generated an image for is replaced by its link when the recorded
\* {placeholder, url} pairs are applied at export: after a successful image
\* step no recognised placeholder is left in the exported text.
C40_NoPlaceholderLeft ==
    (exported.done /\ img_out.node_status = "success") =>
        \A i \in DOMAIN exported.md :
            ~(exported.md[i].t = "img" /\ exported.md[i].prompt # "")

\* ------------------------------------------------------------------------
\* A document over successive runs (send_chat_message, execute_plan and the
\* completion of the two supervisors).  Only plan_md is followed: a plan is
\* a positive number, 0 stands for doc_variables without a plan_md.
\*   version_plan  plan_md of the latest DocumentVersion's doc_variables
\*   run_plan      plan_md of the latest WorkflowRun's doc_variables
\*   started_plan  plan_md of the doc_variables the latest run started from
\*   last_plan     the latest non-empty plan a completed chat run stored
\* ------------------------------------------------------------------------
MaxRuns == 4

\* {**a, **b} on the plan_md key
MergePlan(a, b) == IF b # 0 THEN b ELSE a

InitPlan ==
    /\ state = InitialState(<<>>, FALSE)
    /\ GraphIdle /\ RunIdle /\ ThinkIdle
    /\ text = <<>> /\ pos = 0 /\ mode = "chat" /\ buf = <<>>
    /\ chatOut = <<>> /\ planOut = <<>> /\ lastEmits = <<>> /\ flushed = FALSE
    /\ asm_in = [done |-> FALSE] /\ asm_out = [done |-> FALSE]
    /\ response = [done |-> FALSE] /\ parsed = [done |-> FALSE]
    /\ guard_in = [done |-> FALSE] /\ guard_out = [done |-> FALSE]
    /\ img_in = [done |-> FALSE] /\ img_out = [done |-> FALSE]
    /\ exported = [done |-> FALSE]
    /\ \E v \in 0..1 :
           doc = [done |-> TRUE, version_plan |-> v, run_plan |-> 0,
                  started_plan |-> 0, last_plan |-> 0, plans |-> v,
                  kind |-> "none", status |-> "none", runs |-> 0]

PlanFrame ==
    /\ UNCHANGED <<asm_in, asm_out, response, parsed, guard_in, guard_out,
                   img_in, img_out, exported>>
    /\ UNCHANGED <<text, pos, mode, buf, chatOut, planOut, lastEmits, flushed>>
    /\ UNCHANGED thinkVars
    /\ UNCHANGED graphVars
    /\ UNCHANGED runVars

\* POST /docs/{id}/chat: the new run's doc_variables and the initial state's
\* are those of the latest version; the latest run gives the chat history
SendChatMessage ==
    /\ doc.done /\ doc.status # "running" /\ doc.runs < MaxRuns
    /\ doc' = [doc EXCEPT !.run_plan = doc.version_plan,
                           !.started_plan = doc.version_plan,
                           !.kind = "chat", !.status = "running",
                           !.runs = @ + 1]
    /\ PlanFrame

\* the chat run ends: the controller's new_variables (plan_md written when
\* the answer carries a plan, a failed controller returning the variables
\* it was given) are stored in run.doc_variables with status completed
ChatRunCompleted ==
    /\ doc.done /\ doc.kind = "chat" /\ doc.status = "running"
    /\ \E new \in BOOLEAN :
        LET plan_md == IF new THEN doc.plans + 1 ELSE 0 IN
        doc' = [doc EXCEPT !.run_plan = MergePlan(doc.started_plan, plan_md),
                           !.last_plan = MergePlan(@, plan_md),
                           !.plans = IF new THEN @ + 1 ELSE @,
                           !.status = "completed"]
    /\ PlanFrame

\* POST /docs/{id}/execute: doc_variables = {**version, **latest run}
ExecutePlan ==
    /\ doc.done /\ doc.status # "running" /\ doc.runs < MaxRuns
    /\ LET doc_variables == MergePlan(doc.version_plan, doc.run_plan) IN
        doc' = [doc EXCEPT !.run_plan = doc_variables,
                           !.started_plan = doc_variables,
                           !.kind = "execute", !.status = "running",
                           !.runs = @ + 1]
    /\ PlanFrame

\* the execute run ends completed: a DocumentVersion with the state's
\* doc_variables is added
ExecuteRunCompleted ==
    /\ doc.done /\ doc.kind = "execute" /\ doc.status = "running"
    /\ doc' = [doc EXCEPT !.version_plan = doc.started_plan,
                           !.status = "completed"]
    /\ PlanFrame

\* a run ends failed or cancelled: its doc_variables stay as created
RunNotCompleted ==
    /\ doc.done /\ doc.status = "running"
    /\ doc' = [doc EXCEPT !.status = "failed"]
    /\ PlanFrame

NextPlan ==
    \/ SendChatMessage
    \/ ChatRunCompleted
    \/ ExecutePlan
    \/ ExecuteRunCompleted
    \/ RunNotCompleted

SpecPlan == InitPlan /\ [][NextPlan]_vars

\* C38: once a completed chat run has stored a non-empty plan, every later
\* run on the document starts from doc_variables that contain the most
\* recent non-empty plan.
C38_LaterRunsSeePlan ==
    (doc.done /\ doc.status = "running" /\ doc.last_plan # 0)
        => doc.started_plan = doc.last_plan

====
